---- MODULE Spec2Model ----
(***************************************************************************)
(* A model of the 757built document-to-graph pipeline:                     *)
(*   - the distributed job queue and worker registry (Agent/job_queue.py,  *)
(*     api/cluster_api.py, the worker loop of                              *)
(*     Agent/enhanced_document_processor.py);                              *)
(*   - the distributed temporary object pool                               *)
(*     (ipfs_storage/distributed_storage.py);                              *)
(*   - the graph writer service (Agent/graph_writer_service.py,            *)
(*     add_document_to_graph, extraction/locality_detector.py);            *)
(*   - the processor's worker loop, cost accounting and shutdown           *)
(*     (Agent/enhanced_document_processor.py);                             *)
(*   - the telemetry ingestor (Agent/telemetry_ingestors/base_ingestor.py).*)
(* Every subsystem has its own specification over the shared variables;    *)
(* the variables of the other subsystems keep their initial values.        *)
(***************************************************************************)
EXTENDS Integers, Sequences, FiniteSets, TLC

VARIABLES
    now,             \* the wall clock, time.time(), in units of the worker loop's sleep
    \* ---- coordination store: job queue and worker registry
    jobs,            \* job:<id> hashes: status and claiming worker
    queue,           \* the document_queue list; index 1 is the head (LPUSH side)
    active_workers,  \* the active_workers set
    last_heartbeat,  \* worker:<id> hash, field last_heartbeat (NoValue: no hash)
    wstate,          \* per worker process: "new", "registered", then in run_worker "up"
                     \* (top of the loop), "batch" (in _batch_process_jobs), "sleeping",
                     \* "stopping" (the loop called _graceful_shutdown), and "down"
    last_activity,   \* run_worker's local last_activity
    holding,         \* jobs a worker received from get_job and has not reported yet
    \* ---- processor orchestrator (one per worker process)
    futures,         \* _batch_process_jobs: the jobs whose futures are not collected yet;
                     \* its length is the PROCESSING_IN_FLIGHT gauge
    executing,       \* jobs running in a thread of self.executor
    waiting,         \* jobs submitted to self.executor and waiting for a free thread
    wait_start,      \* when the current future.result(timeout) began to wait
    total_cost,      \* compute_config.total_cost
    start_time,      \* compute_config.start_time
    sd,              \* the shutdown thread _update_compute_cost started: "none",
                     \* "waiting" (for in-flight jobs), "joining" (executor.shutdown)
    sd_start,        \* _graceful_shutdown's start_shutdown
    shutdowns,       \* how many times _graceful_shutdown was started, per worker
    batch_done,      \* when the last batch of the worker finished (NoValue: none yet)
    \* ---- distributed object pool
    files,           \* the "files" hash: file_id -> storage_info (NoEntry: no field)
    retry_queue,     \* the ipfs_retry_queue list; index 1 is the head (LPUSH/LPOP side)
    disk,            \* per node: the file ids with a copy under its storage_path
    node_used,       \* the storage_nodes registry: used space each node last reported
    ipfs_client,     \* per node: whether __init__ connected to an IPFS daemon
    cleanup,         \* per node: position of a running cleanup_old_files
    \* ---- graph writer
    stream,          \* the graph_updates stream; the message id is the index
    delivered,       \* how many entries the graph_writers group has been handed
    acked,           \* the message ids the writer has XACKed
    handled,         \* per delivered message: "ok" or "raised" (handle_message's except)
    snapshot,        \* the graph file at GRAPH_DATA_PATH
    replica,         \* per writer replica: the message and graph it holds in memory
    \* ---- telemetry ingestor
    ingestor,        \* the ingestor's configuration: data_license, graph_client
    payloads,        \* the reading payloads _store_data has written
    tgraph,          \* the nodes and edges created through graph_client
    tcall,           \* the last process_reading call: its coordinates and result
    \* ---- extraction engine
    args,            \* the call being evaluated: the function fn and its arguments
    ret,             \* the call's position pc (None: not entered), locals and result
    \* ---- edge mapping module
    edge_mapping     \* the mapping file (content, mtime), the module's globals
                     \* _mapping_cache and _last_mtime, and the threads calling it

qvars == <<jobs, queue, active_workers, last_heartbeat, wstate, last_activity,
           holding>>

pvars == <<futures, executing, waiting, wait_start, total_cost, start_time, sd, sd_start,
           shutdowns, batch_done>>

svars == <<files, retry_queue, disk, node_used, ipfs_client, cleanup>>

gvars == <<stream, delivered, acked, handled, snapshot, replica>>

tvars == <<ingestor, payloads, tgraph, tcall>>

vars == <<now, qvars, pvars, svars, gvars, tvars, args, ret, edge_mapping>>

\* ------------------------------------------------------------------ bounds

MaxTime == 1        \* the clock stops advancing here
MaxQueue == 2       \* longest document_queue explored
MaxThreshold == 0   \* largest stale_threshold_seconds a POST /prune carries
IdleThreshold == 1  \* idle_shutdown_minutes * 60 of the worker's ComputeConfig
MaxRetryQueue == 1  \* longest ipfs_retry_queue explored
MaxLimit == 1       \* largest limit a POST /retry carries
MaxAgeDays == 1     \* max_age_days of a cleanup, in clock units
NodeCapacity == 1   \* capacity_gb of a node, in files
MaxStream == 2      \* longest graph_updates stream explored
MaxReadings == 1    \* most reading payloads explored
MaxWorkerTime == 2  \* the clock stops here while the worker loops are explored
BatchSize == 2      \* the processor's batch_size
MaxParallelJobs == 1 \* the processor's max_parallel_jobs
MaxBudget == 1      \* max_budget of the worker's ComputeConfig
MaxShutdowns == 2   \* starts of _graceful_shutdown counted per worker
JobTimeout == 0     \* the timeout of future.result, in clock units
ShutdownTimeout == 0 \* _graceful_shutdown's shutdown_timeout, in clock units
MaxWords == 4       \* longest text chunked, in words
MaxChunkSize == 2   \* largest chunk_size explored
MaxOverlap == 3     \* largest overlap explored
MaxChunks == 3      \* largest max_chunks explored
MaxResults == 2     \* most chunk results merged
MaxRelationships == 2  \* most relationships of one analysis
DefaultChunkSize == 2  \* chunk_document's default chunk_size (1500), scaled to MaxWords
DefaultOverlap == 1    \* chunk_document's default overlap (200), scaled
DefaultMaxChunks == 3  \* chunk_document's default max_chunks (5), scaled

Workers == {"w1", "w2"}   \* node ids of the worker processes
JobIds == {"j1", "j2"}    \* the job ids (uuid4) add_job can hand out
NoValue == -1

ReplicationFactor == 2   \* DistributedStorage.replication_factor
FileSize == 1            \* the size of a stored file, the unit of node_used
CostPerHour == 1         \* ComputeConfig.cost_per_hour, per clock unit
MaxCost == MaxBudget + 1 \* total_cost is not counted beyond this

\* ------------------------------------------------------------------ helpers

RECURSIVE SeqCount(_, _)
SeqCount(s, x) ==
    IF s = <<>> THEN 0
    ELSE (IF Head(s) = x THEN 1 ELSE 0) + SeqCount(Tail(s), x)

InSeq(s, x) == \E i \in 1..Len(s) : s[i] = x

\* Every order in which a store-side collection (SMEMBERS, KEYS, HGETALL) may
\* be enumerated.
Orders(S) ==
    {f \in [1..Cardinality(S) -> S] : \A i, k \in 1..Cardinality(S) : f[i] = f[k] => i = k}

LPush(q, x) == <<x>> \o q
RPush(q, x) == Append(q, x)

\* ------------------------------------------------------------------ job queue

NoJob == [status |-> "none", worker |-> "none"]

JobExists(j) == jobs[j].status # "none"

\* the worker process is alive
Running(w) == wstate[w] \notin {"new", "down"}

\* DistributedJobQueue.requeue_job on the store state st = [jobs, queue]
requeue_job(st, j) ==
    [st EXCEPT !.jobs[j].status = "pending", !.queue = LPush(st.queue, j)]

\* DistributedJobQueue.register_worker, called when the processor is constructed
RegisterWorker(w) ==
    /\ wstate[w] = "new"
    /\ wstate' = [wstate EXCEPT ![w] = "registered"]
    /\ active_workers' = active_workers \cup {w}
    /\ last_heartbeat' = [last_heartbeat EXCEPT ![w] = now]
    /\ UNCHANGED <<now, jobs, queue, last_activity, holding>>

\* DistributedJobQueue.heartbeat
Heartbeat(w) ==
    /\ Running(w)
    /\ last_heartbeat' = [last_heartbeat EXCEPT ![w] = now]
    /\ UNCHANGED <<now, jobs, queue, active_workers, wstate, last_activity, holding>>

\* DistributedJobQueue.add_job: a fresh job id, status pending, LPUSH
AddJob ==
    /\ Len(queue) < MaxQueue
    /\ \E j \in JobIds :
        /\ ~JobExists(j)
        /\ jobs' = [jobs EXCEPT ![j] = [status |-> "pending", worker |-> "none"]]
        /\ queue' = LPush(queue, j)
    /\ UNCHANGED <<now, active_workers, last_heartbeat, wstate, last_activity, holding>>

\* DistributedJobQueue.get_job: BRPOP, then mark the job processing by this node
GetJob(w) ==
    /\ Running(w)
    /\ queue # <<>>
    /\ LET j == queue[Len(queue)] IN
        /\ queue' = SubSeq(queue, 1, Len(queue) - 1)
        /\ IF ~JobExists(j)
           THEN UNCHANGED <<jobs, holding>>
           ELSE /\ jobs' = [jobs EXCEPT ![j] = [status |-> "processing", worker |-> w]]
                /\ holding' = [holding EXCEPT ![w] = @ \cup {j}]
    /\ UNCHANGED <<now, active_workers, last_heartbeat, wstate, last_activity>>

\* DistributedJobQueue.complete_job, called by the worker that got the job
CompleteJob(w, j) ==
    /\ Running(w)
    /\ j \in holding[w]
    /\ jobs' = [jobs EXCEPT ![j].status = "completed"]
    /\ holding' = [holding EXCEPT ![w] = @ \ {j}]
    /\ UNCHANGED <<now, queue, active_workers, last_heartbeat, wstate, last_activity>>

\* DistributedJobQueue.fail_job, called by the worker that got the job
FailJob(w, j) ==
    /\ Running(w)
    /\ j \in holding[w]
    /\ jobs' = [jobs EXCEPT ![j].status = "failed"]
    /\ holding' = [holding EXCEPT ![w] = @ \ {j}]
    /\ UNCHANGED <<now, queue, active_workers, last_heartbeat, wstate, last_activity>>

\* POST /jobs/<id>/retry: 404 unless the job hash exists, else requeue_job
RetryJob(j) ==
    /\ JobExists(j)
    /\ Len(queue) < MaxQueue
    /\ LET st == requeue_job([jobs |-> jobs, queue |-> queue], j) IN
        /\ jobs' = st.jobs
        /\ queue' = st.queue
    /\ UNCHANGED <<now, active_workers, last_heartbeat, wstate, last_activity, holding>>

\* ------------------------------------------------------------------ stale-worker reap

HeartbeatAge(w) == now - last_heartbeat[w]

\* prune_stale_workers: the test on one member of active_workers
IsStaleWrong(w, T) == last_heartbeat[w] # NoValue /\ HeartbeatAge(w) >= T
IsStale(w, T) == last_heartbeat[w] # NoValue /\ HeartbeatAge(w) > T

\* prune_stale_workers: the scan of job:* for one pruned worker, keys in order ks
RECURSIVE RequeueJobsOf(_, _, _, _)
RequeueJobsOf(st, w, ks, i) ==
    IF i > Len(ks) THEN st
    ELSE LET j == ks[i] IN
         IF st.jobs[j].worker = w /\ st.jobs[j].status = "processing"
         THEN RequeueJobsOf(
                  [requeue_job(st, j) EXCEPT !.requeued = @ \cup {j}], w, ks, i + 1)
         ELSE RequeueJobsOf(st, w, ks, i + 1)

\* prune_stale_workers: the loop over the members of active_workers, in order ws
RECURSIVE PruneLoop(_, _, _, _, _)
PruneLoop(st, T, ws, ks, i) ==
    IF i > Len(ws) THEN st
    ELSE LET w == ws[i] IN
         IF IsStale(w, T)
         THEN PruneLoop(
                  RequeueJobsOf(
                      [st EXCEPT !.active = @ \ {w}, !.pruned = @ \cup {w}], w, ks, 1),
                  T, ws, ks, i + 1)
         ELSE PruneLoop(st, T, ws, ks, i + 1)

\* POST /prune with stale_threshold_seconds = T
Prune(T) ==
    \E ws \in Orders(active_workers), ks \in Orders({j \in JobIds : JobExists(j)}) :
        LET st0 == [jobs |-> jobs, queue |-> queue, active |-> active_workers,
                    pruned |-> {}, requeued |-> {}]
            st == PruneLoop(st0, T, ws, ks, 1)
        IN  /\ Len(st.queue) <= MaxQueue
            /\ jobs' = st.jobs
            /\ queue' = st.queue
            /\ active_workers' = st.active
            /\ UNCHANGED <<now, last_heartbeat, wstate, last_activity, holding>>

\* ------------------------------------------------------------------ worker loop

\* min(self.batch_size, self.max_parallel_jobs), and a variant that forgets the pool size
BatchLimitWrong == BatchSize
BatchLimit == IF BatchSize < MaxParallelJobs THEN BatchSize ELSE MaxParallelJobs

\* the PROCESSING_IN_FLIGHT gauge: incremented per submitted job, decremented
\* when _batch_process_jobs has collected (or given up on) the job's future
InFlight(w) == Len(futures[w])

\* The loop's dequeue under job_queue_lock: up to n times job_queue.dequeue_job(),
\* stopping at the first None.  DistributedJobQueue defines no dequeue_job; it is
\* modelled as the claim the spec describes, which is what get_job does: pop the
\* tail of document_queue, mark the job processing by this worker.
\* st = [jobs, queue, holding, got].
RECURSIVE dequeue_batch(_, _, _)
dequeue_batch(st, w, n) ==
    IF n = 0 \/ st.queue = <<>> THEN st
    ELSE LET j == st.queue[Len(st.queue)]
             rest == SubSeq(st.queue, 1, Len(st.queue) - 1)
         IN  IF st.jobs[j].status = "none"
             THEN [st EXCEPT !.queue = rest]
             ELSE dequeue_batch(
                      [st EXCEPT !.queue = rest,
                                 !.jobs[j] = [status |-> "processing", worker |-> w],
                                 !.holding = @ \cup {j},
                                 !.got = Append(@, j)], w, n - 1)

\* self.executor.submit for every job of the batch: a ThreadPoolExecutor of
\* max_workers = max_parallel_jobs runs a task at once while a thread is free
\* and queues it otherwise.  ex = [executing, waiting].
RECURSIVE submit_all(_, _)
submit_all(ex, js) ==
    IF js = <<>> THEN ex
    ELSE submit_all(
             IF Cardinality(ex.executing) < MaxParallelJobs
             THEN [ex EXCEPT !.executing = @ \cup {Head(js)}]
             ELSE [ex EXCEPT !.waiting = Append(@, Head(js))],
             Tail(js))

\* _update_compute_cost() on c = [total, sd, sd_start, shutdowns]: adds
\* cost_per_hour times the time since start_time (nothing when that time is
\* zero) and, when the total has reached max_budget, starts a thread running
\* _graceful_shutdown.  Every such start is counted in shutdowns; sd and
\* sd_start follow the thread started first, which is never behind a later
\* one.  The model stops counting the cost at MaxCost and the starts at
\* MaxShutdowns.
update_compute_cost(c, w) ==
    LET duration == now - start_time[w]
        sum == c.total + CostPerHour * duration
        total == IF sum > MaxCost THEN MaxCost ELSE sum
        start == total >= MaxBudget /\ c.sd = "none"
    IN  IF duration = 0 THEN c
        ELSE [total |-> total,
              sd |-> IF start THEN "waiting" ELSE c.sd,
              sd_start |-> IF start THEN now ELSE c.sd_start,
              shutdowns |-> IF total >= MaxBudget /\ c.shutdowns < MaxShutdowns
                            THEN c.shutdowns + 1 ELSE c.shutdowns]

CostState(w) == [total |-> total_cost[w], sd |-> sd[w], sd_start |-> sd_start[w],
                 shutdowns |-> shutdowns[w]]

SetCost(w, c) ==
    /\ total_cost' = [total_cost EXCEPT ![w] = c.total]
    /\ sd' = [sd EXCEPT ![w] = c.sd]
    /\ sd_start' = [sd_start EXCEPT ![w] = c.sd_start]
    /\ shutdowns' = [shutdowns EXCEPT ![w] = c.shutdowns]

\* run_worker up to its while loop: start_time and last_activity are set
RunWorkerStart(w) ==
    /\ wstate[w] = "registered"
    /\ wstate' = [wstate EXCEPT ![w] = "up"]
    /\ last_activity' = [last_activity EXCEPT ![w] = now]
    /\ start_time' = [start_time EXCEPT ![w] = now]
    /\ UNCHANGED <<now, jobs, queue, active_workers, last_heartbeat, holding, futures,
                   executing, waiting, wait_start, total_cost, sd, sd_start, shutdowns,
                   batch_done>>

\* One iteration of run_worker's while loop, up to the submission of a batch.
\* Idle longer than the threshold: the loop's own thread runs _graceful_shutdown
\* (nothing is in flight at the top of the loop, so it goes straight to
\* executor.shutdown, which cancels the queued futures).  Otherwise a batch is
\* dequeued.  No job: schedule.run_pending() (the cost update when it is due) and
\* sleep.  Some jobs: last_activity is set and every job is submitted; when the
\* executor was shut down by the shutdown thread, submit raises, the loop's except
\* clause sleeps and the jobs stay claimed.  No branch of the iteration
\* heartbeats or looks at other workers.
RunWorkerTick(w, due) ==
    /\ wstate[w] = "up"
    /\ IF now - last_activity[w] > IdleThreshold
       THEN /\ wstate' = [wstate EXCEPT ![w] = "stopping"]
            /\ waiting' = [waiting EXCEPT ![w] = <<>>]
            /\ shutdowns' = [shutdowns EXCEPT ![w] =
                                 IF @ < MaxShutdowns THEN @ + 1 ELSE @]
            /\ UNCHANGED <<jobs, queue, holding, last_activity, futures, executing,
                           wait_start, total_cost, sd, sd_start>>
       ELSE LET st == dequeue_batch([jobs |-> jobs, queue |-> queue,
                                     holding |-> holding[w], got |-> <<>>], w, BatchLimit)
            IN  /\ jobs' = st.jobs
                /\ queue' = st.queue
                /\ holding' = [holding EXCEPT ![w] = st.holding]
                /\ IF st.got = <<>>
                   THEN /\ wstate' = [wstate EXCEPT ![w] = "sleeping"]
                        /\ SetCost(w, IF due THEN update_compute_cost(CostState(w), w)
                                      ELSE CostState(w))
                        /\ UNCHANGED <<last_activity, futures, executing, waiting,
                                       wait_start>>
                   ELSE /\ last_activity' = [last_activity EXCEPT ![w] = now]
                        /\ UNCHANGED <<total_cost, sd, sd_start, shutdowns>>
                        /\ IF sd[w] = "joining"
                           THEN /\ wstate' = [wstate EXCEPT ![w] = "sleeping"]
                                /\ UNCHANGED <<futures, executing, waiting, wait_start>>
                           ELSE LET ex == submit_all([executing |-> executing[w],
                                                      waiting |-> waiting[w]], st.got)
                                IN  /\ wstate' = [wstate EXCEPT ![w] = "batch"]
                                    /\ futures' = [futures EXCEPT ![w] = st.got]
                                    /\ executing' = [executing EXCEPT ![w] = ex.executing]
                                    /\ waiting' = [waiting EXCEPT ![w] = ex.waiting]
                                    /\ wait_start' = [wait_start EXCEPT ![w] = now]
    /\ UNCHANGED <<now, active_workers, last_heartbeat, start_time, batch_done>>

\* A job running in a pool thread returns.  process_job is not part of the
\* class; it is modelled as the spec describes a job: it reports complete or
\* fail to the queue.  The freed thread takes the next queued task.
JobFinish(w, j, ok) ==
    /\ Running(w)
    /\ j \in executing[w]
    /\ jobs' = [jobs EXCEPT ![j].status = IF ok THEN "completed" ELSE "failed"]
    /\ holding' = [holding EXCEPT ![w] = @ \ {j}]
    /\ IF waiting[w] = <<>>
       THEN /\ executing' = [executing EXCEPT ![w] = @ \ {j}]
            /\ UNCHANGED waiting
       ELSE /\ executing' = [executing EXCEPT ![w] = (@ \ {j}) \cup {Head(waiting[w])}]
            /\ waiting' = [waiting EXCEPT ![w] = Tail(@)]
    /\ UNCHANGED <<now, queue, active_workers, last_heartbeat, wstate, last_activity,
                   futures, wait_start, total_cost, start_time, sd, sd_start, shutdowns,
                   batch_done>>

\* _batch_process_jobs, one future.result(timeout=3600): it returns when the job
\* is done (or its future was cancelled) and raises when the timeout passes; either
\* way the gauge is decremented and the next future is waited for.  After the
\* last one: _update_compute_cost(), and back to the top of the loop (no wait
\* is under way then).
BatchCollect(w) ==
    /\ wstate[w] = "batch"
    /\ LET j == Head(futures[w])
           done == j \notin executing[w] /\ ~InSeq(waiting[w], j)
       IN  /\ done \/ now - wait_start[w] > JobTimeout
           /\ futures' = [futures EXCEPT ![w] = Tail(@)]
           /\ wait_start' = [wait_start EXCEPT ![w] =
                                 IF Tail(futures[w]) = <<>> THEN 0 ELSE now]
           /\ IF Tail(futures[w]) = <<>>
              THEN /\ SetCost(w, update_compute_cost(CostState(w), w))
                   /\ batch_done' = [batch_done EXCEPT ![w] = now]
                   /\ wstate' = [wstate EXCEPT ![w] = "up"]
              ELSE UNCHANGED <<total_cost, sd, sd_start, shutdowns, batch_done, wstate>>
    /\ UNCHANGED <<now, jobs, queue, active_workers, last_heartbeat, last_activity, holding,
                   executing, waiting, start_time>>

\* run_worker: time.sleep(5) returns and the loop starts its next iteration
WorkerWake(w) ==
    /\ wstate[w] = "sleeping"
    /\ wstate' = [wstate EXCEPT ![w] = "up"]
    /\ UNCHANGED <<now, jobs, queue, active_workers, last_heartbeat, last_activity,
                   holding, futures, executing, waiting, wait_start, total_cost,
                   start_time, sd, sd_start, shutdowns, batch_done>>

\* _graceful_shutdown in the shutdown thread, its wait loop: it ends when the
\* gauge is zero or shutdown_timeout has passed; executor.shutdown(wait=True,
\* cancel_futures=True) then cancels the queued futures.
ShutdownWait(w) ==
    /\ Running(w)
    /\ sd[w] = "waiting"
    /\ InFlight(w) = 0 \/ now - sd_start[w] > ShutdownTimeout
    /\ sd' = [sd EXCEPT ![w] = "joining"]
    /\ sd_start' = [sd_start EXCEPT ![w] = 0]
    /\ waiting' = [waiting EXCEPT ![w] = <<>>]
    /\ UNCHANGED <<now, jobs, queue, active_workers, last_heartbeat, wstate, last_activity,
                   holding, futures, executing, wait_start, total_cost, start_time,
                   shutdowns, batch_done>>

\* _graceful_shutdown after executor.shutdown(wait=True) has returned, which it
\* does when no pool thread runs a job any more: the final cost report and
\* os._exit(0).  The jobs the process still holds stay as they are in the store;
\* what the process had in memory is gone.
ShutdownExit(w) ==
    /\ wstate[w] = "stopping" \/ (Running(w) /\ sd[w] = "joining")
    /\ executing[w] = {}
    /\ wstate' = [wstate EXCEPT ![w] = "down"]
    /\ total_cost' = [total_cost EXCEPT ![w] = update_compute_cost(CostState(w), w).total]
    /\ shutdowns' = [shutdowns EXCEPT ![w] = update_compute_cost(CostState(w), w).shutdowns]
    /\ futures' = [futures EXCEPT ![w] = <<>>]
    /\ waiting' = [waiting EXCEPT ![w] = <<>>]
    /\ wait_start' = [wait_start EXCEPT ![w] = 0]
    /\ sd' = [sd EXCEPT ![w] = "none"]
    /\ sd_start' = [sd_start EXCEPT ![w] = 0]
    /\ UNCHANGED <<now, jobs, queue, active_workers, last_heartbeat, last_activity, holding,
                   executing, start_time, batch_done>>

\* time passes, up to a limit
Tick(limit) ==
    /\ now < limit
    /\ now' = now + 1
    /\ UNCHANGED <<qvars, pvars, svars, gvars, tvars, args, ret, edge_mapping>>

AdvanceClock == Tick(MaxTime)

\* ------------------------------------------------------------------ object pool

Nodes == {"n1", "n2"}      \* node ids of the storage nodes
\* the registry with one more node, which has a larger disk and only receives replicas
StorageNodes == Nodes \cup {"n3"}
FileIds == {"f1"}          \* "file_" + sha256 of the content: one id per content

NoHash == "None"

\* ipfs_client.add(path)["Hash"]: the CID is a function of the content
\* (f1 holds the bytes of data/a.pdf, the document process_document stores
\* in the pool and add_or_reuse names on its graph node)
CID(f) == CASE f = "f1" -> "QmDoc1" [] f = "f2" -> "Qm2"

NoEntry == [storage_nodes |-> <<>>, ipfs_status |-> "none", ipfs_hash |-> NoHash,
            created_at |-> 0]

\* store_file: the storage_info record it builds, with the local copy appended
NewInfo(n, t) == [storage_nodes |-> <<n>>, ipfs_status |-> "pending",
                  ipfs_hash |-> NoHash, created_at |-> t]

HasNode(info, n) == InSeq(info.storage_nodes, n)

\* the list comprehension [node for node in storage_nodes if node_id != n]
RECURSIVE WithoutNode(_, _)
WithoutNode(s, n) ==
    IF s = <<>> THEN <<>>
    ELSE IF Head(s) = n THEN WithoutNode(Tail(s), n)
    ELSE <<Head(s)>> \o WithoutNode(Tail(s), n)

\* random.sample(candidate_nodes, k): k distinct candidates in any order
Sample(S, k) == {q \in [1..k -> S] : \A i, m \in 1..k : q[i] = q[m] => i = m}

Min(a, b) == IF a < b THEN a ELSE b

\* _get_local_usage / _update_usage: what node n reports for the copies it holds
\* (st is the pool state [files, retry_queue, disk, node_used])
UpdateUsage(st, n) == [st EXCEPT !.node_used[n] = Cardinality(st.disk[n])]

\* store_file: copy2 to the storage path, _update_usage, hset of the new record
StoreLocal(st, n, f, t) ==
    LET st1 == [st EXCEPT !.disk[n] = @ \cup {f}] IN
    [UpdateUsage(st1, n) EXCEPT !.files[f] = NewInfo(n, t)]

\* store_file: the IPFS attempt; info is the caller's local storage_info and
\* ok[n] tells whether the daemon of node n accepts the add
IpfsAttempt(st, n, f, info, ok) ==
    IF ~ipfs_client[n] THEN st
    ELSE IF ok[n]
    THEN [st EXCEPT !.files[f] = [info EXCEPT !.ipfs_status = "stored",
                                              !.ipfs_hash = CID(f)]]
    ELSE [st EXCEPT !.retry_queue = LPush(@, f)]

\* POST /store on peer p with replicate=false: store_file on that node
PeerStore(st, p, f, t, ok) ==
    IpfsAttempt(StoreLocal(st, p, f, t), p, f, NewInfo(p, t), ok)

\* _replicate_file: the nodes other than n with room for one more file and an endpoint
capacity_gb(p) == IF p = "n3" THEN NodeCapacity + 1 ELSE NodeCapacity
FreeSpace(st, p) == capacity_gb(p) - st.node_used[p]
Candidates(st, n) == {p \in (DOMAIN st.node_used) \ {n} : FreeSpace(st, p) >= FileSize}

\* _replicate_file: the loop over selected_nodes and the final hset.
\* post[p] is what the POST to p does: "ok" (stored, 200), "refused" (nothing
\* stored, error), "lost" (stored, but the caller saw a timeout).
RECURSIVE ReplicateLoop(_, _, _, _, _, _, _, _)
ReplicateLoop(st, info, f, t, sel, post, ipfs_ok, i) ==
    IF i > Len(sel) THEN [st EXCEPT !.files[f] = info]
    ELSE LET p == sel[i] IN
         IF post[p] = "refused"
         THEN ReplicateLoop(st, info, f, t, sel, post, ipfs_ok, i + 1)
         ELSE ReplicateLoop(
                  PeerStore(st, p, f, t, ipfs_ok),
                  IF post[p] = "ok"
                  THEN [info EXCEPT !.storage_nodes = Append(@, p)]
                  ELSE info,
                  f, t, sel, post, ipfs_ok, i + 1)

\* _replicate_file(file_id, local_file, copies) called by node n
replicate_file(st, n, f, t, copies, sel, post, ipfs_ok) ==
    IF Candidates(st, n) = {} THEN st
    ELSE ReplicateLoop(st, st.files[f], f, t, sel, post, ipfs_ok, 1)

\* store_file(file_path, metadata, replicate) on node n for the content f
store_file(st, n, f, t, replicate, sel, post, ipfs_ok) ==
    LET st1 == StoreLocal(st, n, f, t)
        st2 == IF replicate /\ ReplicationFactor > 1
               THEN replicate_file(st1, n, f, t, ReplicationFactor - 1, sel, post, ipfs_ok)
               ELSE st1
    IN  IpfsAttempt(st2, n, f, NewInfo(n, t), ipfs_ok)

PoolState == [files |-> files, retry_queue |-> retry_queue, disk |-> disk,
              node_used |-> node_used]

SetPool(st) ==
    /\ files' = st.files
    /\ retry_queue' = st.retry_queue
    /\ disk' = st.disk
    /\ node_used' = st.node_used

\* a call of store_file on node n
StoreFile(n, f, replicate) ==
    LET cands == Candidates(StoreLocal(PoolState, n, f, now), n)
        k == Min(ReplicationFactor - 1, Cardinality(cands))
    IN  \E sel \in (IF replicate THEN Sample(cands, k) ELSE {<<>>}) :
        \E post \in [{sel[i] : i \in 1..Len(sel)} -> {"ok", "refused", "lost"}],
           ipfs_ok \in [{m \in {sel[i] : i \in 1..Len(sel)} \cup {n} : ipfs_client[m]}
                            -> BOOLEAN] :
            LET st == store_file(PoolState, n, f, now, replicate, sel, post, ipfs_ok) IN
            /\ Len(st.retry_queue) <= MaxRetryQueue
            /\ SetPool(st)
            /\ UNCHANGED <<now, qvars, pvars, gvars, tvars, args, ret, edge_mapping, ipfs_client, cleanup>>

\* a retry loop that forgets an id whose add failed
RECURSIVE RetryLoopLossy(_, _, _, _, _)
RetryLoopLossy(st, n, limit, oks, i) ==
    IF i > limit \/ st.retry_queue = <<>> THEN st
    ELSE LET f == Head(st.retry_queue)
             st1 == [st EXCEPT !.retry_queue = Tail(@)]
             info == st.files[f]
         IN  IF ~HasNode(info, n) \/ ~ipfs_client[n]
             THEN RetryLoopLossy([st1 EXCEPT !.retry_queue = RPush(@, f)], n, limit, oks,
                                 i + 1)
             ELSE IF f \in st.disk[n] /\ oks[i]
             THEN RetryLoopLossy([st1 EXCEPT !.files[f] =
                                      [info EXCEPT !.ipfs_status = "stored",
                                                   !.ipfs_hash = CID(f)]],
                                 n, limit, oks, i + 1)
             ELSE RetryLoopLossy(st1, n, limit, oks, i + 1)

\* retry_ipfs_uploads: the loop, iteration i of limit; oks[i] is whether the
\* IPFS daemon accepts the add of that iteration
RECURSIVE RetryLoop(_, _, _, _, _)
RetryLoop(st, n, limit, oks, i) ==
    IF i > limit \/ st.retry_queue = <<>> THEN st
    ELSE LET f == Head(st.retry_queue)
             st1 == [st EXCEPT !.retry_queue = Tail(@)]
             info == st.files[f]
         IN  IF ~HasNode(info, n) \/ ~ipfs_client[n]
             THEN RetryLoop([st1 EXCEPT !.retry_queue = RPush(@, f)], n, limit, oks, i + 1)
             ELSE IF f \in st.disk[n] /\ oks[i]
             THEN RetryLoop([st1 EXCEPT !.files[f] =
                                 [info EXCEPT !.ipfs_status = "stored",
                                              !.ipfs_hash = CID(f)]],
                            n, limit, oks, i + 1)
             ELSE RetryLoop([st1 EXCEPT !.retry_queue = RPush(@, f)], n, limit, oks, i + 1)

\* a call of retry_ipfs_uploads(limit) on node n
RetryUploads(n, limit) ==
    /\ retry_queue # <<>>
    /\ \E oks \in [1..limit -> BOOLEAN] :
           SetPool(RetryLoop(PoolState, n, limit, oks, 1))
    /\ UNCHANGED <<now, qvars, pvars, gvars, tvars, args, ret, edge_mapping, ipfs_client, cleanup>>

CleanupIdle == [pc |-> "idle", all_files |-> [f \in FileIds |-> NoEntry], todo |-> {}]

\* cleanup_old_files: all_files = hgetall("files"); the loop follows
CleanupStart(n) ==
    /\ cleanup[n].pc = "idle"
    /\ \E f \in FileIds : files[f] # NoEntry
    /\ cleanup' = [cleanup EXCEPT ![n] =
                       [pc |-> "scan", all_files |-> files,
                        todo |-> {f \in FileIds : files[f] # NoEntry}]]
    /\ UNCHANGED <<now, qvars, pvars, gvars, tvars, args, ret, edge_mapping, files, retry_queue, disk, node_used, ipfs_client>>

\* cleanup_old_files: the loop body for one item of all_files
CleanupFile(n, f) ==
    /\ cleanup[n].pc = "scan"
    /\ f \in cleanup[n].todo
    /\ LET storage_info == cleanup[n].all_files[f]
           rest == cleanup[n].todo \ {f}
       IN  /\ cleanup' = [cleanup EXCEPT ![n] =
                              IF rest = {} THEN CleanupIdle
                              ELSE [@ EXCEPT !.todo = rest, !.all_files[f] = NoEntry]]
           /\ IF \/ storage_info.ipfs_status # "stored"
                 \/ storage_info.ipfs_hash = NoHash
                 \/ now - storage_info.created_at < MaxAgeDays
              THEN UNCHANGED <<files, retry_queue, disk, node_used>>
              ELSE LET st1 == IF HasNode(storage_info, n)
                              THEN [PoolState EXCEPT !.disk[n] = @ \ {f}]
                              ELSE PoolState
                       st2 == [st1 EXCEPT !.files[f] =
                                   [storage_info EXCEPT !.storage_nodes =
                                        WithoutNode(@, n)]]
                   IN  SetPool(UpdateUsage(st2, n))
    /\ UNCHANGED <<now, qvars, pvars, gvars, tvars, args, ret, edge_mapping, ipfs_client>>

\* ------------------------------------------------------------------ graph writer

\* the document files the processor is pointed at
Paths == {"data/a.pdf", "data/b.pdf", "inbox/a.pdf"}

\* os.path.basename(doc_path)
Basename(p) == CASE p = "data/a.pdf" -> "a.pdf"
                 [] p = "data/b.pdf" -> "b.pdf"
                 [] p = "inbox/a.pdf" -> "a.pdf"

\* the content hash (sha256 of the document text): data/b.pdf is a copy of data/a.pdf
FileContent(p) == CASE p = "data/a.pdf" -> "h1"
                    [] p = "data/b.pdf" -> "h1"
                    [] p = "inbox/a.pdf" -> "h2"

\* "doc_" + md5(basename)[:8]
DocId(p) == CASE Basename(p) = "a.pdf" -> "doc_a"
              [] Basename(p) = "b.pdf" -> "doc_b"

\* add_or_reuse(doc_path): the CID of the file's content
DocCid(p) == CASE FileContent(p) = "h1" -> "QmDoc1"
               [] FileContent(p) = "h2" -> "QmDoc2"

\* detect_localities(text)["NORFOLK"]: the mentions of Norfolk in the text
Mentions(p) == CASE FileContent(p) = "h1" -> 3
                 [] FileContent(p) = "h2" -> 0

\* detect_region(text)
MentionsRegion(p) == FileContent(p) = "h1"

\* "project_" + md5(title)[:8]
ProjectId(title) == CASE title = "Bridge" -> "project_bridge"

Absent == "absent"     \* the attribute is not in the dict
None == "None"         \* the attribute is there and is None

EdgeTypeValues ==
    {"derives_from", "implements", "influenced", "supersedes", "authored_by",
     "funded_by", "located_in", "serves_region", "measures", "observes",
     "provided_by", "contains", "worked_with", "cited_by", "contracted_by",
     "merged_with", "acquired", "partnered_with", "invested_in", "supplies_to",
     "provides_service_to", "hosts_at", "located_near", "originated_from"}

\* a node / an edge with no attributes
BlankNode(id) == [id |-> id, type |-> Absent, label |-> Absent, path |-> Absent,
                  cid |-> Absent, date |-> NoValue, primary_locality |-> Absent]
BlankEdge(u, v) == [source |-> u, target |-> v, type |-> Absent, timestamp |-> NoValue,
                    key |-> Absent, mentions |-> 0, subtype |-> Absent,
                    source_document |-> Absent]

\* dict.update: the attributes given in upd replace those of old
Update(old, upd) == [k \in DOMAIN old |-> IF k \in DOMAIN upd THEN upd[k] ELSE old[k]]

HasNodeId(G, id) == \E n \in G.nodes : n.id = id
NodeOf(G, id) == CHOOSE n \in G.nodes : n.id = id
HasEdge(G, u, v) == \E e \in G.edges : e.source = u /\ e.target = v
EdgeOf(G, u, v) == CHOOSE e \in G.edges : e.source = u /\ e.target = v

\* DiGraph.add_node(id, **upd)
AddNode(G, id, upd) ==
    LET old == IF HasNodeId(G, id) THEN NodeOf(G, id) ELSE BlankNode(id) IN
    [G EXCEPT !.nodes = (@ \ {old}) \cup {Update(old, upd)}]

\* DiGraph.add_edge(u, v, **upd): missing end nodes are created without attributes
AddEdge(G, u, v, upd) ==
    LET G1 == IF HasNodeId(G, u) THEN G ELSE AddNode(G, u, <<>>)
        G2 == IF HasNodeId(G1, v) THEN G1 ELSE AddNode(G1, v, <<>>)
        old == IF HasEdge(G, u, v) THEN EdgeOf(G, u, v) ELSE BlankEdge(u, v)
    IN  [G2 EXCEPT !.edges = (@ \ {old}) \cup {Update(old, upd)}]

\* load_graph / save_graph: the file lists every node with its id and
\* attributes and every edge with source, target and attributes
save_graph(G) == [nodes |-> G.nodes, edges |-> G.edges]
load_graph(file) == [nodes |-> file.nodes, edges |-> file.edges]

\* the graph file after scripts/seed_localities.py: the region, the locality
\* and the edge between them
SeededGraph ==
    save_graph(
        AddEdge(
            AddNode(
                AddNode([nodes |-> {}, edges |-> {}], "region_hampton_roads",
                        [type |-> "region", label |-> "Hampton Roads"]),
                "loc_norfolk", [type |-> "locality", label |-> "NORFOLK"]),
            "loc_norfolk", "region_hampton_roads",
            [type |-> "located_in", timestamp |-> 0]))

\* add_locality_relations_to_graph(G, document_id, text) at time t: the graph
\* and the locality ids it returns
add_locality_relations_to_graph(G, doc_id, p, t) ==
    LET found == Mentions(p) > 0 /\ HasNodeId(G, "loc_norfolk")
        G1 == IF found
              THEN AddEdge(G, doc_id, "loc_norfolk",
                           [type |-> "located_in", timestamp |-> t,
                            mentions |-> Mentions(p)])
              ELSE G
        G2 == IF Mentions(p) > 0 /\ MentionsRegion(p)
                  /\ HasNodeId(G1, "region_hampton_roads")
              THEN AddEdge(G1, doc_id, "region_hampton_roads",
                           [type |-> "located_in", timestamp |-> t,
                            subtype |-> "explicit_mention"])
              ELSE G1
    IN  [G |-> G2, locality_ids |-> IF found THEN {"loc_norfolk"} ELSE {}]

\* add_document_to_graph(doc_path, extracted_data) at time t; ipfs_ok tells
\* whether add_or_reuse returned a CID
add_document_to_graph(file, p, data, t, ipfs_ok) ==
    LET G0 == load_graph(file)
        doc_id == DocId(p)
        cid == IF ipfs_ok THEN DocCid(p) ELSE None
        G1 == AddNode(G0, doc_id,
                      [label |-> Basename(p), type |-> "document", path |-> p,
                       cid |-> cid, date |-> t])
        r == add_locality_relations_to_graph(G1, doc_id, p, t)
        G2 == IF r.locality_ids # {}
              THEN AddNode(r.G, doc_id, [primary_locality |-> "NORFOLK"])
              ELSE r.G
    IN  IF data.project = None THEN G2
        ELSE LET project_id == ProjectId(data.project)
                 G3 == AddNode(G2, project_id,
                               [label |-> data.project, type |-> "project", cid |-> cid])
                 G4 == AddEdge(G3, doc_id, project_id,
                               [type |-> "contains_document", timestamp |-> t])
             IN  IF r.locality_ids = {} THEN G4
                 ELSE AddNode(
                          AddEdge(G4, project_id, "loc_norfolk",
                                  [type |-> "located_in", timestamp |-> t,
                                   source_document |-> doc_id]),
                          project_id, [primary_locality |-> "NORFOLK"])

\* handle_message: the loop over similar_docs
RECURSIVE SimilarEdges(_, _, _, _)
SimilarEdges(G, mcid, sims, i) ==
    IF i > Len(sims) THEN G
    ELSE SimilarEdges(AddEdge(G, mcid, sims[i], [key |-> "SIMILAR_TO"]), mcid, sims, i + 1)

\* handle_message raises inside its try block: add_edge refuses None as a
\* node, or save_graph cannot write the file
Raises(data, save_ok) ==
    \/ data.similar_docs # <<>> /\ data.metadata_cid = None
    \/ ~save_ok

\* process_document: the graph_updates event for the document at path p.
\* The project comes from the model's answer, similar_docs from the vector
\* index, metadata_cid from store_metadata_in_ipfs (None when IPFS is down).
ProcessDocument(p) ==
    /\ Len(stream) < MaxStream
    /\ \E project \in {None, "Bridge"},
          similar_docs \in {<<>>, <<"QmSim">>},
          metadata_cid \in {None, "QmMeta"} :
            stream' = Append(stream,
                             [path |-> p,
                              data |-> [project |-> project,
                                        similar_docs |-> similar_docs,
                                        metadata_cid |-> metadata_cid]])
    /\ UNCHANGED <<now, qvars, pvars, svars, tvars, args, ret, edge_mapping, delivered, acked, handled, snapshot, replica>>

\* main: one message of an xreadgroup batch: handle_message, then xack
WriterStep ==
    /\ delivered < Len(stream)
    /\ LET msg_id == delivered + 1
           fields == stream[msg_id]
       IN  \E ipfs_ok \in BOOLEAN, save_ok \in BOOLEAN :
               LET G == SimilarEdges(
                            add_document_to_graph(snapshot, fields.path, fields.data,
                                                  now, ipfs_ok),
                            fields.data.metadata_cid, fields.data.similar_docs, 1)
               IN  /\ delivered' = msg_id
                   /\ IF Raises(fields.data, save_ok)
                      THEN /\ handled' = Append(handled, "raised")
                           /\ snapshot' = snapshot
                      ELSE /\ handled' = Append(handled, "ok")
                           /\ snapshot' = save_graph(G)
                   /\ acked' = acked \cup {msg_id}
    /\ UNCHANGED <<now, qvars, pvars, svars, tvars, args, ret, edge_mapping, stream, replica>>

\* the writer replicas (consumers of the graph_writers group)
Replicas == {"writer1", "writer2"}

ReplicaIdle == [pc |-> "idle", msg_id |-> 0, G |-> [nodes |-> {}, edges |-> {}]]

\* a replica's handle_message up to save_graph: the message it was handed is
\* merged into the graph it loaded from the file
ReplicaMerge(r) ==
    /\ replica[r].pc = "idle"
    /\ delivered < Len(stream)
    /\ LET msg_id == delivered + 1
           fields == stream[msg_id]
       IN  \E ipfs_ok \in BOOLEAN :
               LET G == SimilarEdges(
                            add_document_to_graph(snapshot, fields.path, fields.data,
                                                  now, ipfs_ok),
                            fields.data.metadata_cid, fields.data.similar_docs, 1)
               IN  /\ delivered' = msg_id
                   /\ IF Raises(fields.data, TRUE)
                      THEN /\ handled' = Append(handled, "raised")
                           /\ replica' = [replica EXCEPT ![r] =
                                              [ReplicaIdle EXCEPT !.pc = "raised",
                                                                  !.msg_id = msg_id]]
                      ELSE /\ handled' = Append(handled, "merged")
                           /\ replica' = [replica EXCEPT ![r] =
                                              [pc |-> "merged", msg_id |-> msg_id, G |-> G]]
    /\ UNCHANGED <<now, qvars, pvars, svars, tvars, args, ret, edge_mapping, stream, acked, snapshot>>

\* a replica's save_graph(G) and the xack that follows handle_message
ReplicaSave(r) ==
    /\ replica[r].pc \in {"merged", "raised"}
    /\ \E save_ok \in BOOLEAN :
           IF replica[r].pc = "merged" /\ save_ok
           THEN /\ snapshot' = save_graph(replica[r].G)
                /\ handled' = [handled EXCEPT ![replica[r].msg_id] = "ok"]
           ELSE /\ snapshot' = snapshot
                /\ handled' = [handled EXCEPT ![replica[r].msg_id] = "raised"]
    /\ acked' = acked \cup {replica[r].msg_id}
    /\ replica' = [replica EXCEPT ![r] = ReplicaIdle]
    /\ UNCHANGED <<now, qvars, pvars, svars, tvars, args, ret, edge_mapping, stream, delivered>>

\* ------------------------------------------------------------------ telemetry

\* HAMPTON_ROADS_BOUNDS, in tenths of a degree
MinLat == 366
MaxLat == 373
MinLon == -770
MaxLon == -759

\* the coordinates a source may report: on and just beyond every bound
Lats == {MinLat - 1, MinLat, MaxLat, MaxLat + 1}
Lons == {MinLon - 1, MinLon, MaxLon, MaxLon + 1}

\* _validate_license: the approved open data licenses
OPEN_DATA_LICENSES == {"CC0-1.0", "CC-BY-4.0", "ODC-BY-1.0", "ODbL-1.0", "PDDL-1.0",
                       "MIT", "Apache-2.0"}

\* the licenses an ingestor is constructed with
Licenses == {"CC0-1.0", "Proprietary"}

\* the additional_metadata a reading carries: None, or one text field
Metadata == {None, "sensor 7", "123-45-6789", "ops@example.org", "757-555-0100"}

\* BaseTelemetryIngestor._validate_license: logs a warning, returns the id
validate_license(license_id) == license_id

\* BaseTelemetryIngestor._is_in_hampton_roads, and a variant without the longitude test
IsInLatBand(lat, lon) == MinLat <= lat /\ lat <= MaxLat
is_in_hampton_roads(lat, lon) ==
    /\ MinLat <= lat /\ lat <= MaxLat
    /\ MinLon <= lon /\ lon <= MaxLon

\* BaseTelemetryIngestor._contains_pii: the SSN, e-mail and phone patterns
contains_pii(data) == data \in {"123-45-6789", "ops@example.org", "757-555-0100"}

NoCall == [lat |-> 0, lon |-> 0, result |-> "no call"]

\* a node / an edge made through graph_client
TNode(type, id, lat, lon, license) ==
    [type |-> type, id |-> id, lat |-> lat, lng |-> lon, license |-> license]
TEdge(source, target, type) == [source |-> source, target |-> target, type |-> type]

\* process_reading(stream_id, value, timestamp, coordinates, locality,
\* additional_metadata); store_ok tells whether _store_data could write
ProcessReading(stream_id, lat, lon, locality, metadata, store_ok) ==
    /\ is_in_hampton_roads(lat, lon) => Cardinality(payloads) < MaxReadings
    /\ IF ~is_in_hampton_roads(lat, lon)
       THEN /\ tcall' = [lat |-> lat, lon |-> lon, result |-> "None"]
            /\ UNCHANGED <<payloads, tgraph>>
       ELSE LET reading_data ==
                    [stream_id |-> stream_id, timestamp |-> now, lat |-> lat, lon |-> lon,
                     license |-> ingestor.data_license, locality |-> locality,
                     metadata |-> IF metadata # None /\ ~contains_pii(metadata)
                                  THEN metadata ELSE None]
                reading_id == <<stream_id, now>>
                nodes1 == {TNode("telemetry_stream", <<stream_id>>, 0, 0, None),
                           TNode("telemetry_reading", reading_id, lat, lon,
                                 ingestor.data_license)}
                edges1 == {TEdge(<<stream_id>>, reading_id, "contains")}
                nodes2 == IF locality = None THEN {}
                          ELSE {TNode("locality", <<locality>>, 0, 0, None)}
                edges2 == IF locality = None THEN {}
                          ELSE {TEdge(reading_id, <<locality>>, "located_in")}
            IN  IF ~store_ok
                THEN /\ tcall' = [lat |-> lat, lon |-> lon, result |-> "raised"]
                     /\ UNCHANGED <<payloads, tgraph>>
                ELSE /\ tcall' = [lat |-> lat, lon |-> lon, result |-> "stored"]
                     /\ payloads' = payloads \cup {reading_data}
                     /\ tgraph' = IF ingestor.graph_client
                                  THEN [nodes |-> tgraph.nodes \cup nodes1 \cup nodes2,
                                        edges |-> tgraph.edges \cup edges1 \cup edges2]
                                  ELSE tgraph
    /\ UNCHANGED <<now, qvars, pvars, svars, gvars, ingestor, args, ret, edge_mapping>>

\* ------------------------------------------------------------------ chunking

\* A text is a record: its words in order (a word is named by its position)
\* and whether single blanks separate them ("single") or other whitespace
\* does ("ragged").

\* words[a:b]: a negative index counts from the end, every index is clamped
PySlice(s, a, b) ==
    LET n == Len(s)
        lo == IF a >= 0 THEN Min(a, n) ELSE IF a + n > 0 THEN a + n ELSE 0
        hi == IF b >= 0 THEN Min(b, n) ELSE IF b + n > 0 THEN b + n ELSE 0
    IN  IF lo < hi THEN SubSeq(s, lo + 1, hi) ELSE <<>>

\* the while condition of chunk_document
ChunkGuardNoCap(words, start, chunks, max_chunks) == start < Len(words)

ChunkGuard(words, start, chunks, max_chunks) ==
    start < Len(words) /\ Len(chunks) < max_chunks

\* chunk_document up to its loop: text.split(), the early return, start = 0
ChunkDocumentCall ==
    /\ args.fn = "chunk_document"
    /\ ret.pc = None
    /\ ret' = IF Len(args.text.words) <= args.chunk_size
              THEN [pc |-> "done", start |-> 0, chunks |-> <<args.text>>]
              ELSE [pc |-> "loop", start |-> 0, chunks |-> <<>>]
    /\ UNCHANGED <<now, qvars, pvars, svars, gvars, tvars, args, edge_mapping>>

\* chunk_document: the loop test and one pass of the loop body, or the
\* return; r holds the locals start and chunks
ChunkPass(words, chunk_size, overlap, max_chunks, r) ==
    LET end == Min(r.start + chunk_size, Len(words))
        chunk == [words |-> PySlice(words, r.start, end), ws |-> "single"]
    IN  IF ~ChunkGuard(words, r.start, r.chunks, max_chunks)
        THEN [r EXCEPT !.pc = "done"]
        ELSE IF end = Len(words)
        THEN [r EXCEPT !.pc = "done", !.chunks = Append(@, chunk)]
        ELSE [r EXCEPT !.start = end - overlap, !.chunks = Append(@, chunk)]

ChunkDocumentStep ==
    /\ args.fn = "chunk_document"
    /\ ret.pc = "loop"
    /\ ret' = ChunkPass(args.text.words, args.chunk_size, args.overlap, args.max_chunks, ret)
    /\ UNCHANGED <<now, qvars, pvars, svars, gvars, tvars, args, edge_mapping>>

\* chunk_document as its callers see it: the list it returns
RECURSIVE ChunkLoop(_, _, _, _, _)
ChunkLoop(words, chunk_size, overlap, max_chunks, r) ==
    IF r.pc = "done" THEN r.chunks
    ELSE ChunkLoop(words, chunk_size, overlap, max_chunks,
                   ChunkPass(words, chunk_size, overlap, max_chunks, r))

chunk_document(text, chunk_size, overlap, max_chunks) ==
    IF Len(text.words) <= chunk_size THEN <<text>>
    ELSE ChunkLoop(text.words, chunk_size, overlap, max_chunks,
                   [pc |-> "loop", start |-> 0, chunks |-> <<>>])

\* ------------------------------------------------------------------ merger

\* A chunk result is the dict parsed from the model's answer: keys is the set
\* of keys the dict has (the entity categories are the keys of its entities
\* dict), the other fields are their values ("" or <<>> for a key it does not
\* have).  An item of locations, of an entity category or of dates is written
\* as the value under its key (name or date), "" when it has none.
NoResult == [keys |-> {}, locations |-> <<>>, people |-> <<>>, organizations |-> <<>>,
             companies |-> <<>>, dates |-> <<>>, title |-> "", error |-> "",
             text_content |-> [words |-> <<>>, ws |-> "single"]]

\* for item in chunk_list: append it when it has a key value that
\* _seen_set(merged_list, key) does not hold
RECURSIVE MergeItems(_, _)
MergeItems(merged_list, chunk_list) ==
    IF chunk_list = <<>> THEN merged_list
    ELSE LET item == Head(chunk_list)
             seen == {merged_list[i] : i \in 1..Len(merged_list)} \ {""}
         IN  MergeItems(IF item # "" /\ item \notin seen
                        THEN Append(merged_list, item) ELSE merged_list,
                        Tail(chunk_list))

\* smart_union: the loop body for one of chunk_results[1:]; setdefault adds
\* the key, the loop over the chunk's items extends its list
MergeChunk(merged, chunk) ==
    LET lists == {k \in {"locations", "dates"} : k \in chunk.keys}
                 \cup {c \in {"people", "organizations", "companies"} :
                           "entities" \in chunk.keys /\ c \in chunk.keys}
        r == [k \in DOMAIN merged |->
                 IF k \in lists THEN MergeItems(merged[k], chunk[k]) ELSE merged[k]]
    IN  [r EXCEPT !.keys = @ \cup lists \cup (chunk.keys \cap {"entities"})]

RECURSIVE MergeFrom(_, _, _)
MergeFrom(merged, chunk_results, i) ==
    IF i > Len(chunk_results) THEN merged
    ELSE MergeFrom(MergeChunk(merged, chunk_results[i]), chunk_results, i + 1)

smart_union(chunk_results) ==
    IF chunk_results = <<>> THEN NoResult
    ELSE MergeFrom(chunk_results[1], chunk_results, 2)

\* a call of smart_union
SmartUnion ==
    /\ args.fn = "smart_union"
    /\ ret.pc = None
    /\ ret' = [pc |-> "done", value |-> smart_union(args.chunk_results)]
    /\ UNCHANGED <<now, qvars, pvars, svars, gvars, tvars, args, edge_mapping>>

\* ------------------------------------------------------------------ document processing

\* process_text_chunk(chunk, phi3_processor): parsed tells whether json.loads
\* accepted the model's output
process_text_chunk(chunk, parsed) ==
    LET result == IF parsed
                  THEN [NoResult EXCEPT !.keys = {"title", "locations"},
                                        !.title = "Bridge", !.locations = <<"Norfolk">>]
                  ELSE [NoResult EXCEPT !.keys = {"error", "raw_output"},
                                        !.error = "JSONDecodeError"]
    IN  [result EXCEPT !.keys = @ \cup {"text_content"}, !.text_content = chunk]

\* process_document(document_path, phi3_processor) for a document with the
\* text args.text: chunk_results is the list it hands to smart_union, value
\* the record it persists, streams and returns
RunProcessDocument ==
    /\ args.fn = "process_document"
    /\ ret.pc = None
    /\ LET chunks == chunk_document(args.text, DefaultChunkSize, DefaultOverlap,
                                    DefaultMaxChunks)
       IN  \E parsed \in [1..Len(chunks) -> BOOLEAN], metadata_cid \in {None, "QmMeta"} :
               LET chunk_results == [i \in 1..Len(chunks) |->
                                        process_text_chunk(chunks[i], parsed[i])]
                   processed_data == smart_union(chunk_results)
               IN  ret' = [pc |-> "done", chunk_results |-> chunk_results,
                           value |-> IF metadata_cid = None THEN processed_data
                                     ELSE [processed_data EXCEPT
                                              !.keys = @ \cup {"metadata_cid"}]]
    /\ UNCHANGED <<now, qvars, pvars, svars, gvars, tvars, args, edge_mapping>>

\* ------------------------------------------------------------------ relationships

\* text.lower().strip() on the relation texts explored (the mapping file's
\* keys are normalised the same way when it is loaded)
LowerStripNone(text) == text

LowerStrip(text) ==
    CASE text \in {"Worked With", "  worked with  ", "WORKED WITH"} -> "worked with"
      [] text = "ACQUIRED" -> "acquired"
      [] text = " Bought" -> "bought"
      [] text = "  " -> ""
      [] OTHER -> text

\* canonical_edge(text), mapping being what _load_mapping() returned: 0 is
\* the empty dict, 1 the mapping file as the module's tests write it, 2 that
\* file with the line "new relation: ACQUIRED" appended.  The result is the
\* member of EdgeType with the mapped name, written as the member's value.
canonical_edge(mapping, text) ==
    LET t == LowerStrip(text)
        enum_name == CASE mapping = 0 -> None
                       [] t = "worked with" -> "worked_with"
                       [] t = "collaborated with" -> "worked_with"
                       [] t = "partnered with" -> "partnered_with"
                       [] t = "acquired" -> "acquired"
                       [] t = "bought" -> "acquired"
                       [] t = "invalid relation" -> "invalid_edge_type"
                       [] t = "new relation" /\ mapping = 2 -> "acquired"
                       [] OTHER -> None
    IN  IF text \in {None, ""} THEN None
        ELSE IF enum_name \in EdgeTypeValues THEN enum_name ELSE None

\* the threads that call into graph_db.edge_mapping
Threads == {"t1", "t2"}

IdleThread == [pc |-> "idle", fn |-> None, text |-> None, current_mtime |-> 0,
               began |-> 0, mapping |-> 0, answer |-> None]

\* the mapping file is edited: a line is appended and its mtime increases
TouchFile ==
    /\ edge_mapping.file_content = 1
    /\ edge_mapping' = [edge_mapping EXCEPT !.file_content = 2, !.file_mtime = @ + 1]
    /\ UNCHANGED <<now, qvars, pvars, svars, gvars, tvars, args, ret>>

\* reload_mapping() up to its call of _load_mapping: under the lock the
\* cache is emptied and _last_mtime set to 0
ReloadMapping(t) ==
    /\ edge_mapping.threads[t].pc \in {"idle", "done"}
    /\ edge_mapping' = [edge_mapping EXCEPT
                            !.cache = 0, !.last_mtime = 0,
                            !.threads[t] = [IdleThread EXCEPT !.pc = "stat",
                                                              !.fn = "reload_mapping"]]
    /\ UNCHANGED <<now, qvars, pvars, svars, gvars, tvars, args, ret>>

\* _load_mapping() statement by statement, entered from canonical_edge(text)
\* or from reload_mapping: the stat of the file before the lock is taken,
\* the block under the lock, and the return of the global _mapping_cache
\* after the lock is released, with which canonical_edge answers.  began
\* notes the file content at the stat, mapping the dict returned.
LoadMapping(t) ==
    LET th == edge_mapping.threads[t]
        stat(fn, text) == [th EXCEPT !.pc = "lock", !.fn = fn, !.text = text,
                                     !.current_mtime = edge_mapping.file_mtime,
                                     !.began = edge_mapping.file_content,
                                     !.mapping = 0, !.answer = None]
    IN  /\ \/ /\ th.pc \in {"idle", "done"}
              /\ \E text \in {"worked with", "new relation"} :
                     edge_mapping' = [edge_mapping EXCEPT
                                         !.threads[t] = stat("canonical_edge", text)]
           \/ /\ th.pc = "stat"
              /\ edge_mapping' = [edge_mapping EXCEPT !.threads[t] = stat(th.fn, th.text)]
           \/ /\ th.pc = "lock"
              /\ edge_mapping' =
                     IF edge_mapping.cache = 0 \/ th.current_mtime > edge_mapping.last_mtime
                     THEN [edge_mapping EXCEPT !.cache = edge_mapping.file_content,
                                               !.last_mtime = th.current_mtime,
                                               !.threads[t].pc = "return"]
                     ELSE [edge_mapping EXCEPT !.threads[t].pc = "return"]
           \/ /\ th.pc = "return"
              /\ edge_mapping' = [edge_mapping EXCEPT
                                      !.threads[t].pc = "done",
                                      !.threads[t].mapping = edge_mapping.cache,
                                      !.threads[t].answer =
                                          IF th.fn = "canonical_edge"
                                          THEN canonical_edge(edge_mapping.cache, th.text)
                                          ELSE None]
        /\ UNCHANGED <<now, qvars, pvars, svars, gvars, tvars, args, ret>>

\* a call of canonical_edge
CanonicalEdge ==
    /\ args.fn = "canonical_edge"
    /\ ret.pc = None
    /\ ret' = [pc |-> "done", value |-> canonical_edge(args.mapping, args.text)]
    /\ UNCHANGED <<now, qvars, pvars, svars, gvars, tvars, args, edge_mapping>>

\* update_graph_database: the loop over analysis['relationships'], from
\* relationship i on; graph is the dict loaded from the graph file
RECURSIVE AddRelationships(_, _, _)
AddRelationships(graph, relationships, i) ==
    IF i > Len(relationships) THEN graph
    ELSE LET rel == relationships[i]
             source_node == {n \in graph.nodes : n.label = rel.source}
             target_node == {n \in graph.nodes : n.label = rel.target}
             existing_edge ==
                 \E k \in 1..Len(graph.edges), sn \in source_node, tn \in target_node :
                     /\ graph.edges[k].source = sn.id
                     /\ graph.edges[k].target = tn.id
                     /\ graph.edges[k].relationship = rel.relationship
             g1 == IF \/ rel.source = "" \/ rel.target = "" \/ rel.relationship = ""
                      \/ source_node = {} \/ target_node = {} \/ existing_edge
                   THEN graph
                   ELSE [graph EXCEPT !.edges = Append(@,
                            [source |-> (CHOOSE n \in source_node : TRUE).id,
                             target |-> (CHOOSE n \in target_node : TRUE).id,
                             relationship |-> rel.relationship])]
         IN  AddRelationships(g1, relationships, i + 1)

\* update_graph_database(analysis) for an analysis that carries relationships
\* between entities whose nodes the graph file already has
UpdateGraphDatabase ==
    /\ args.fn = "update_graph_database"
    /\ ret.pc = None
    /\ ret' = [pc |-> "done",
               graph |-> AddRelationships(
                             [nodes |-> {[id |-> "person_0", label |-> "A"],
                                         [id |-> "company_0", label |-> "B"]},
                              edges |-> <<>>],
                             args.relationships, 1)]
    /\ UNCHANGED <<now, qvars, pvars, svars, gvars, tvars, args, edge_mapping>>

\* ------------------------------------------------------------------ read API

\* GET /api/projects/<project_id>/documents on the graph file: the edges that
\* leave the project and whose 'relationship' is contains_document, then the
\* document nodes they point at. Reading edge['relationship'] on an edge that
\* has no such key raises KeyError and the request fails.
get_project_documents(graph_data, project_id) ==
    LET from_project == {e \in graph_data.edges : e.source = project_id}
    IN  IF \E e \in from_project : "relationship" \notin DOMAIN e
        THEN [status |-> 500, body |-> {}]
        ELSE [status |-> 200,
              body |-> {n \in graph_data.nodes :
                           /\ n.type = "document"
                           /\ \E e \in from_project :
                                  /\ e.relationship = "contains_document"
                                  /\ e.target = n.id}]

\* ------------------------------------------------------------------ git history

\* build_git_history_for_project(G, project_id): the subgraph of the nodes
\* reached from the project by walking G.pred over lineage edges, with the
\* edges walked, and the commits (id and parents) in the topological order
\* order of that subgraph
build_git_history_for_project(G, project_id, order) ==
    LET lineage == {"derives_from", "implements", "influenced"}
        pred(n) == {e \in G.edges : e.target = n /\ e.type \in lineage}
        RECURSIVE trace(_, _)
        trace(seen, nodes_to_process) ==
            IF nodes_to_process = <<>> THEN seen
            ELSE LET current == Head(nodes_to_process)
                     new == {e.source : e \in pred(current)} \ seen
                     more == CHOOSE q \in Orders(new) : TRUE
                 IN  trace(seen \cup new, Tail(nodes_to_process) \o more)
        nodes == trace({project_id}, <<project_id>>)
        edges == {e \in G.edges : e.target \in nodes /\ e.type \in lineage}
    IN  [nodes |-> nodes,
         sorted |-> \A i, j \in 1..Len(order) :
                       (\E e \in edges : e.source = order[j] /\ e.target = order[i]) => j < i,
         commits |-> [i \in 1..Len(order) |->
                         [id |-> order[i],
                          parents |-> {e.source : e \in {x \in edges : x.target = order[i]}}]]]

\* GET /projects/<id>/git-history on a graph of a research paper R1, a
\* patent P1 and a project J1
BuildGitHistory ==
    /\ args.fn = "build_git_history_for_project"
    /\ ret.pc = None
    /\ \E order \in UNION {Orders(S) : S \in SUBSET {"R1", "P1", "J1"}} :
           LET h == build_git_history_for_project(args.G, args.project_id, order)
           IN  /\ {order[i] : i \in 1..Len(order)} = h.nodes
               /\ h.sorted
               /\ ret' = [pc |-> "done", commits |-> h.commits]
    /\ UNCHANGED <<now, qvars, pvars, svars, gvars, tvars, args, edge_mapping>>

\* ------------------------------------------------------------------ weather ingestor

\* WeatherIngestor.fetch_data for one grid point: for every weather type the
\* feed has a value for, a reading with the feed's unit in its
\* additional_metadata, and self.unit set to that unit.  Returns the readings
\* and the ingestor's unit attribute after the call.
fetch_data(unit, weather_types, feed) ==
    LET RECURSIVE loop(_, _, _)
        loop(readings, u, i) ==
            IF i > Len(weather_types) THEN [readings |-> readings, unit |-> u]
            ELSE LET weather_type == weather_types[i] IN
                 IF ~feed[weather_type].has_value THEN loop(readings, u, i + 1)
                 ELSE loop(Append(readings,
                                  [stream_id |-> weather_type,
                                   additional_metadata |->
                                       [weather_type |-> weather_type,
                                        unit |-> feed[weather_type].uom]]),
                           feed[weather_type].uom, i + 1)
    IN  loop(<<>>, unit, 1)

\* BaseTelemetryIngestor.run on a WeatherIngestor (constructed with
\* unit="variable"): fetch_data, then process_reading for every reading, which
\* creates the reading node with NODE_UNIT = self.unit
RunIngestor ==
    /\ args.fn = "run"
    /\ ret.pc = None
    /\ LET f == fetch_data("variable", args.weather_types, args.feed)
       IN  ret' = [pc |-> "done",
                   nodes |-> [i \in 1..Len(f.readings) |->
                                 [id |-> f.readings[i].stream_id, unit |-> f.unit]]]
    /\ UNCHANGED <<now, qvars, pvars, svars, gvars, tvars, args, edge_mapping>>

\* ------------------------------------------------------------------ specification

\* the pool after every node's __init__: nothing stored, every node registered
PoolInitOf(N) ==
    /\ files = [f \in FileIds |-> NoEntry]
    /\ retry_queue = <<>>
    /\ disk = [n \in N |-> {}]
    /\ node_used = [n \in N |-> 0]
    /\ cleanup = [n \in N |-> CleanupIdle]

PoolInit == PoolInitOf(Nodes)

\* the ingestor's stores before any reading
TelemetryInit ==
    /\ payloads = {}
    /\ tgraph = [nodes |-> {}, edges |-> {}]
    /\ tcall = NoCall

\* the writer before any event: the seeded graph file, an empty stream
GraphInit ==
    /\ stream = <<>>
    /\ delivered = 0
    /\ acked = {}
    /\ handled = <<>>
    /\ snapshot = SeededGraph
    /\ replica = [r \in Replicas |-> ReplicaIdle]

\* the coordination store before any job or worker
JobsInit ==
    /\ jobs = [j \in JobIds |-> NoJob]
    /\ queue = <<>>
    /\ active_workers = {}
    /\ last_heartbeat = [w \in Workers |-> NoValue]
    /\ wstate = [w \in Workers |-> "new"]
    /\ last_activity = [w \in Workers |-> 0]
    /\ holding = [w \in Workers |-> {}]
    /\ futures = [w \in Workers |-> <<>>]
    /\ executing = [w \in Workers |-> {}]
    /\ waiting = [w \in Workers |-> <<>>]
    /\ wait_start = [w \in Workers |-> 0]
    /\ total_cost = [w \in Workers |-> 0]
    /\ start_time = [w \in Workers |-> 0]
    /\ sd = [w \in Workers |-> "none"]
    /\ sd_start = [w \in Workers |-> 0]
    /\ shutdowns = [w \in Workers |-> 0]
    /\ batch_done = [w \in Workers |-> NoValue]

QueueInit ==
    /\ now = 0
    /\ JobsInit
    /\ PoolInit
    /\ ipfs_client = [n \in Nodes |-> TRUE]
    /\ GraphInit
    /\ TelemetryInit
    /\ args = [fn |-> None]
    /\ ret = [pc |-> None]
    /\ edge_mapping = [file_content |-> 1, file_mtime |-> 1, cache |-> 0, last_mtime |-> 0,
                       threads |-> [t \in Threads |-> IdleThread]]
    /\ ingestor = [data_license |-> validate_license("CC0-1.0"), graph_client |-> TRUE]

QueueNext ==
    \/ AdvanceClock
    \/ AddJob /\ UNCHANGED <<pvars, svars, gvars, tvars, args, ret, edge_mapping>>
    \/ \E w \in Workers : RegisterWorker(w) /\ UNCHANGED <<pvars, svars, gvars, tvars, args, ret, edge_mapping>>
    \/ \E w \in Workers : Heartbeat(w) /\ UNCHANGED <<pvars, svars, gvars, tvars, args, ret, edge_mapping>>
    \/ \E w \in Workers : GetJob(w) /\ UNCHANGED <<pvars, svars, gvars, tvars, args, ret, edge_mapping>>
    \/ \E w \in Workers, j \in JobIds : CompleteJob(w, j) /\ UNCHANGED <<pvars, svars, gvars, tvars, args, ret, edge_mapping>>
    \/ \E w \in Workers, j \in JobIds : FailJob(w, j) /\ UNCHANGED <<pvars, svars, gvars, tvars, args, ret, edge_mapping>>
    \/ \E j \in JobIds : RetryJob(j) /\ UNCHANGED <<pvars, svars, gvars, tvars, args, ret, edge_mapping>>
    \/ \E T \in 0..MaxThreshold : Prune(T) /\ UNCHANGED <<pvars, svars, gvars, tvars, args, ret, edge_mapping>>

QueueSpec == QueueInit /\ [][QueueNext]_vars

\* the loops of the worker processes W, with jobs being added to the queue
LoopNext(W) ==
    \/ Tick(MaxWorkerTime)
    \/ AddJob /\ UNCHANGED <<pvars, svars, gvars, tvars, args, ret, edge_mapping>>
    \/ \E w \in W : RegisterWorker(w) /\ UNCHANGED <<pvars, svars, gvars, tvars, args, ret, edge_mapping>>
    \/ \E w \in W : RunWorkerStart(w) /\ UNCHANGED <<svars, gvars, tvars, args, ret, edge_mapping>>
    \/ \E w \in W, due \in BOOLEAN :
           RunWorkerTick(w, due) /\ UNCHANGED <<svars, gvars, tvars, args, ret, edge_mapping>>
    \/ \E w \in W, j \in JobIds, ok \in BOOLEAN :
           JobFinish(w, j, ok) /\ UNCHANGED <<svars, gvars, tvars, args, ret, edge_mapping>>
    \/ \E w \in W : BatchCollect(w) /\ UNCHANGED <<svars, gvars, tvars, args, ret, edge_mapping>>
    \/ \E w \in W : WorkerWake(w) /\ UNCHANGED <<svars, gvars, tvars, args, ret, edge_mapping>>
    \/ \E w \in W : ShutdownWait(w) /\ UNCHANGED <<svars, gvars, tvars, args, ret, edge_mapping>>
    \/ \E w \in W : ShutdownExit(w) /\ UNCHANGED <<svars, gvars, tvars, args, ret, edge_mapping>>

\* the job queue together with the loops of all workers
WorkerNext == LoopNext(Workers)

WorkerSpec == QueueInit /\ [][WorkerNext]_vars

\* one worker process alone
ProcessorNext == LoopNext({"w1"})

ProcessorSpec == QueueInit /\ [][ProcessorNext]_vars

\* the object pool: stores, promotion retries and cleanups by several nodes
StorageInit ==
    /\ now = 0
    /\ JobsInit
    /\ PoolInit
    /\ ipfs_client \in [Nodes -> BOOLEAN]
    /\ GraphInit
    /\ TelemetryInit
    /\ args = [fn |-> None]
    /\ ret = [pc |-> None]
    /\ edge_mapping = [file_content |-> 1, file_mtime |-> 1, cache |-> 0, last_mtime |-> 0,
                       threads |-> [t \in Threads |-> IdleThread]]
    /\ ingestor = [data_license |-> validate_license("CC0-1.0"), graph_client |-> TRUE]

StorageNext ==
    \/ AdvanceClock
    \/ \E n \in Nodes, f \in FileIds, replicate \in BOOLEAN : StoreFile(n, f, replicate)
    \/ \E n \in Nodes, limit \in 1..MaxLimit : RetryUploads(n, limit)
    \/ \E n \in Nodes : CleanupStart(n)
    \/ \E n \in Nodes, f \in FileIds : CleanupFile(n, f)

StorageSpec == StorageInit /\ [][StorageNext]_vars

\* the object pool with a third registered node to replicate to
PeerInit ==
    /\ now = 0
    /\ JobsInit
    /\ PoolInitOf(StorageNodes)
    /\ ipfs_client = [n \in StorageNodes |-> TRUE]
    /\ GraphInit
    /\ TelemetryInit
    /\ args = [fn |-> None]
    /\ ret = [pc |-> None]
    /\ edge_mapping = [file_content |-> 1, file_mtime |-> 1, cache |-> 0, last_mtime |-> 0,
                       threads |-> [t \in Threads |-> IdleThread]]
    /\ ingestor = [data_license |-> validate_license("CC0-1.0"), graph_client |-> TRUE]

PeerSpec == PeerInit /\ [][StorageNext]_vars

\* the document processors feeding the single graph writer
WriterNext ==
    \/ AdvanceClock
    \/ \E p \in Paths : ProcessDocument(p)
    \/ WriterStep

WriterSpec == QueueInit /\ [][WriterNext]_vars

\* the document processors feeding several writer replicas
ReplicaNext ==
    \/ AdvanceClock
    \/ \E p \in Paths : ProcessDocument(p)
    \/ \E r \in Replicas : ReplicaMerge(r)
    \/ \E r \in Replicas : ReplicaSave(r)

ReplicaSpec == QueueInit /\ [][ReplicaNext]_vars

\* a telemetry ingestor, constructed with any license, with or without a
\* graph client, processing the readings its source returns
IngestInit ==
    /\ now = 0
    /\ JobsInit
    /\ PoolInit
    /\ ipfs_client = [n \in Nodes |-> TRUE]
    /\ GraphInit
    /\ TelemetryInit
    /\ args = [fn |-> None]
    /\ ret = [pc |-> None]
    /\ edge_mapping = [file_content |-> 1, file_mtime |-> 1, cache |-> 0, last_mtime |-> 0,
                       threads |-> [t \in Threads |-> IdleThread]]
    /\ \E license \in Licenses, graph_client \in BOOLEAN :
           ingestor = [data_license |-> validate_license(license),
                       graph_client |-> graph_client]

\* process_reading reads no clock: a reading carries its own timestamp
IngestNext ==
    \/ \E lat \in Lats, lon \in Lons, locality \in {None, "NORFOLK"},
          metadata \in Metadata, store_ok \in BOOLEAN :
            ProcessReading("s1", lat, lon, locality, metadata, store_ok)

IngestSpec == IngestInit /\ [][IngestNext]_vars

\* the pool that holds the documents and the graph writer that indexes them:
\* process_document stores the document in the pool and publishes it, the
\* writer puts its node, with the CID of its content, into the graph; the
\* processor and the nightly cleanup run on node n1
ArchiveNext ==
    \/ AdvanceClock
    \/ \E f \in FileIds, replicate \in BOOLEAN : StoreFile("n1", f, replicate)
    \/ CleanupStart("n1")
    \/ \E f \in FileIds : CleanupFile("n1", f)
    \/ ProcessDocument("data/a.pdf")
    \/ WriterStep

ArchiveSpec == QueueInit /\ [][ArchiveNext]_vars

\* the extraction engine's functions, each applied to arguments drawn from
\* bounded sets
ChunkArgs ==
    [fn : {"chunk_document"},
     text : {[words |-> [i \in 1..W |-> i], ws |-> ws] :
                 W \in 0..MaxWords, ws \in {"single", "ragged"}},
     chunk_size : 1..MaxChunkSize, overlap : 0..MaxOverlap, max_chunks : 1..MaxChunks]

\* calls of smart_union on chunk results as the model may answer: lists
\* with and without a repeated item, keys left out, a title given, empty or
\* left out
MergeArgs ==
    LET ChunkResults ==
            {[NoResult EXCEPT
                 !.keys = {"entities", "people"} \cup {k \in {"locations"} : l # <<>>}
                              \cup {k \in {"dates"} : d # <<>>}
                              \cup {k \in {"title"} : t # Absent},
                 !.locations = l, !.people = p, !.dates = d,
                 !.title = IF t = Absent THEN "" ELSE t] :
                l \in {<<>>, <<"Norfolk", "Norfolk">>, <<"Suffolk", "">>},
                p \in {<<"Ann", "Ann">>, <<"Bob">>},
                d \in {<<>>, <<"2024-01-01">>},
                t \in {Absent, "", "Bridge"}}
    IN  [fn : {"smart_union"},
         chunk_results : UNION {[1..n -> ChunkResults] : n \in 0..MaxResults}]

EngineInit ==
    /\ now = 0
    /\ JobsInit
    /\ PoolInit
    /\ ipfs_client = [n \in Nodes |-> TRUE]
    /\ GraphInit
    /\ TelemetryInit
    /\ ingestor = [data_license |-> validate_license("CC0-1.0"), graph_client |-> TRUE]
    /\ args \in ChunkArgs \cup MergeArgs
                \cup [fn : {"process_document"},
                      text : {[words |-> [i \in 1..W |-> i], ws |-> ws] :
                                  W \in 0..MaxWords, ws \in {"single", "ragged"}}]
                \cup [fn : {"update_graph_database"},
                      relationships :
                          UNION {[1..n -> [source : {"A"}, target : {"B", "C"},
                                           relationship : {"collaborated with", "worked with",
                                                           "Worked With", "acquired", ""}]] :
                                     n \in 1..MaxRelationships}]
                \cup [fn : {"run"},
                      weather_types : {<<"temperature">>, <<"humidity">>,
                                       <<"temperature", "humidity">>,
                                       <<"humidity", "temperature">>},
                      feed : [{"temperature", "humidity"} ->
                                  [has_value : BOOLEAN,
                                   uom : {"wmoUnit:degC", "wmoUnit:percent"}]]]
                \cup [fn : {"build_git_history_for_project"},
                      project_id : {"J1", "P1"},
                      G : [nodes : {{"R1", "P1", "J1"}},
                           edges : {a \cup b :
                                       a \in {{}, {[source |-> "P1", target |-> "R1",
                                                    type |-> "derives_from"]},
                                              {[source |-> "R1", target |-> "P1",
                                                type |-> "influenced"]}},
                                       b \in {{}, {[source |-> "J1", target |-> "P1",
                                                    type |-> "implements"]},
                                              {[source |-> "P1", target |-> "J1",
                                                type |-> "influenced"]},
                                              {[source |-> "P1", target |-> "J1",
                                                type |-> "authored_by"]}}}]]
                \cup [fn : {"canonical_edge"}, mapping : 1..2,
                      text : {None, "", "  ", "worked with", "Worked With",
                              "  worked with  ", "WORKED WITH", "collaborated with",
                              "partnered with", "acquired", "ACQUIRED", "bought", " Bought",
                              "invalid relation", "unknown relation", "new relation"}]
    /\ ret = [pc |-> None]
    /\ edge_mapping = [file_content |-> 1, file_mtime |-> 1, cache |-> 0, last_mtime |-> 0,
                       threads |-> [t \in Threads |-> IdleThread]]

EngineNext ==
    \/ ChunkDocumentCall
    \/ ChunkDocumentStep
    \/ SmartUnion
    \/ RunProcessDocument
    \/ UpdateGraphDatabase
    \/ CanonicalEdge
    \/ BuildGitHistory
    \/ RunIngestor

EngineSpec == EngineInit /\ [][EngineNext]_vars

\* threads resolving relation texts while the mapping file is edited and
\* reloaded
MapNext ==
    \/ TouchFile
    \/ \E t \in Threads : ReloadMapping(t)
    \/ \E t \in Threads : LoadMapping(t)

MapSpec == QueueInit /\ [][MapNext]_vars

\* ------------------------------------------------------------------ claims: job queue

\* C2: every change of a job's status is Pending->Processing,
\* Processing->Completed, Processing->Failed, Failed->Pending, or the forced
\* requeue of a Processing job whose worker's heartbeat is stale; a Completed
\* job never changes status and a Pending job is never marked Completed or
\* Failed.  (The creation of a job, none->Pending, is not a change of status.)
C2_StatusTransitions ==
    [][\A j \in JobIds :
          jobs'[j].status # jobs[j].status =>
              \/ jobs[j].status = "none" /\ jobs'[j].status = "pending"
              \/ jobs[j].status = "pending" /\ jobs'[j].status = "processing"
              \/ jobs[j].status = "processing" /\ jobs'[j].status = "completed"
              \/ jobs[j].status = "processing" /\ jobs'[j].status = "failed"
              \/ jobs[j].status = "failed" /\ jobs'[j].status = "pending"
              \/ /\ jobs[j].status = "processing" /\ jobs'[j].status = "pending"
                 /\ jobs[j].worker \in Workers
                 /\ \E T \in 0..MaxThreshold :
                        /\ last_heartbeat[jobs[j].worker] # NoValue
                        /\ now - last_heartbeat[jobs[j].worker] > T
      ]_vars

\* C3: no job is being processed by two running workers at the same time.
C3_NoDoubleProcessing ==
    \A j \in JobIds : Cardinality({w \in Workers : Running(w) /\ j \in holding[w]}) <= 1

\* C4: when a job is Processing and the heartbeat of its claiming worker is
\* older than the reap threshold, one loop iteration of any other running
\* worker leaves the job Pending and back on the queue.
C4_StaleJobRequeuedWithinTick ==
    [][\A w \in Workers :
          ((\E due \in BOOLEAN : RunWorkerTick(w, due)) /\ wstate'[w] # "stopping") =>
              \A j \in JobIds :
                  ( /\ jobs[j].status = "processing"
                    /\ jobs[j].worker \in Workers \ {w}
                    /\ last_heartbeat[jobs[j].worker] # NoValue
                    /\ now - last_heartbeat[jobs[j].worker] > MaxThreshold )
                  => (jobs'[j].status = "pending" /\ InSeq(queue', j))
      ]_vars

\* C5: a reap with threshold T removes from active_workers exactly the
\* workers whose last heartbeat is older than T, sets back to Pending and
\* pushes onto the queue (once) exactly the jobs that were Processing and
\* claimed by a removed worker, and leaves every other worker, job, queue
\* entry and heartbeat as it was.
C5_ReapExact ==
    [][\A T \in 0..MaxThreshold :
          Prune(T) =>
              LET removed == {w \in active_workers :
                                 /\ last_heartbeat[w] # NoValue
                                 /\ now - last_heartbeat[w] > T}
              IN  /\ active_workers' = active_workers \ removed
                  /\ last_heartbeat' = last_heartbeat
                  /\ Len(queue') >= Len(queue)
                  /\ SubSeq(queue', Len(queue') - Len(queue) + 1, Len(queue')) = queue
                  /\ \A j \in JobIds :
                        IF jobs[j].status = "processing" /\ jobs[j].worker \in removed
                        THEN /\ jobs'[j] = [jobs[j] EXCEPT !.status = "pending"]
                             /\ SeqCount(queue', j) = SeqCount(queue, j) + 1
                        ELSE /\ jobs'[j] = jobs[j]
                             /\ SeqCount(queue', j) = SeqCount(queue, j)
      ]_vars

\* C5 witness: a started worker has been removed from active_workers and its
\* job is Pending on the queue, while a worker that stayed registered still
\* has its job Processing.
C5_Witness ==
    \E w1 \in Workers, w2 \in Workers, j1 \in JobIds, j2 \in JobIds :
        /\ wstate[w1] # "new" /\ w1 \notin active_workers
        /\ jobs[j1].worker = w1 /\ jobs[j1].status = "pending" /\ InSeq(queue, j1)
        /\ w2 \in active_workers
        /\ jobs[j2].worker = w2 /\ jobs[j2].status = "processing"

\* ------------------------------------------------------------------ claims: object pool

\* C6: when a node stores a content it already holds and is listed for, the
\* entry of that content keeps its replica list, its promotion state and its
\* CID: the second store changes nothing.
C6_StoreTwiceChangesNothing ==
    [][\A n \in Nodes, f \in FileIds, replicate \in BOOLEAN :
          ( /\ StoreFile(n, f, replicate)
            /\ files[f] # NoEntry
            /\ HasNode(files[f], n)
            /\ f \in disk[n] )
          => /\ files'[f].storage_nodes = files[f].storage_nodes
             /\ files'[f].ipfs_status = files[f].ipfs_status
             /\ files'[f].ipfs_hash = files[f].ipfs_hash
      ]_vars

\* C7: whenever a node's local copy of a file disappears, the file's entry is
\* Stored at that moment and either another node is listed as a replica or
\* the entry carries a CID.
C7_CleanupDeletesOnlyPromoted ==
    [][\A n \in Nodes, f \in FileIds :
          (f \in disk[n] /\ f \notin disk'[n]) =>
              /\ files[f].ipfs_status = "stored"
              /\ \/ \E m \in Nodes \ {n} : HasNode(files[f], m)
                 \/ files[f].ipfs_hash # NoHash
      ]_vars

\* ------------------------------------------------------------------ claims: graph writer

\* C1: a message whose handling raised is never acknowledged: every
\* acknowledged message was merged into the graph and saved.
C1_AckOnlyAfterSave ==
    \A msg_id \in acked : handled[msg_id] = "ok"

\* C8: the saved graph holds at most one document node per content hash.
C8_OneDocumentPerContent ==
    \A n1 \in snapshot.nodes, n2 \in snapshot.nodes :
        ( /\ n1.type = "document" /\ n2.type = "document"
          /\ FileContent(n1.path) = FileContent(n2.path) )
        => n1.id = n2.id

\* C9: every edge of the saved graph has a type of the closed EdgeType
\* enumeration, the document-project, locality and similarity edges included.
C9_EdgeTypesClosed ==
    \A e \in snapshot.edges : e.type \in EdgeTypeValues

\* the ids, dates and timestamps of a saved graph
Stamps(file) ==
    [nodes |-> {[id |-> n.id, date |-> n.date] : n \in file.nodes},
     edges |-> {[source |-> e.source, target |-> e.target, timestamp |-> e.timestamp] :
                   e \in file.edges}]

\* C10: when the writer handles an event equal to the one it has just applied,
\* the saved graph keeps its nodes and edges and every date and timestamp on
\* them.
C10_ReplayIdempotent ==
    [][( /\ delivered >= 1
         /\ delivered' = delivered + 1
         /\ stream[delivered + 1] = stream[delivered]
         /\ handled[delivered] = "ok"
         /\ handled'[delivered + 1] = "ok" )
       => Stamps(snapshot') = Stamps(snapshot)
      ]_vars

\* C11: with several writer replicas, every node and every edge of a saved
\* graph is still in every later saved graph: the events merged by
\* concurrent replicas are all kept.
C11_NoLostUpdate ==
    [][/\ \A n \in snapshot.nodes : \E m \in snapshot'.nodes : m.id = n.id
       /\ \A e \in snapshot.edges :
              \E d \in snapshot'.edges : d.source = e.source /\ d.target = e.target
      ]_vars

\* ------------------------------------------------------------------ claims: telemetry

\* C12: a process_reading call whose latitude or longitude lies outside the
\* bounding box (bounds inclusive) returns None and writes nothing, neither a
\* payload nor a node or edge; and every telemetry_reading node of the graph
\* lies inside the box.  (tcall' holds the coordinates and the result of the
\* call a step makes.)
C12_OutOfBoxRejected ==
    [][/\ ( /\ tcall'.result # "no call"
            /\ \/ tcall'.lat < MinLat \/ tcall'.lat > MaxLat
               \/ tcall'.lon < MinLon \/ tcall'.lon > MaxLon )
          => (tcall'.result = "None" /\ UNCHANGED <<payloads, tgraph>>)
       /\ \A n \in tgraph'.nodes :
              n.type = "telemetry_reading" =>
                  /\ MinLat <= n.lat /\ n.lat <= MaxLat
                  /\ MinLon <= n.lng /\ n.lng <= MaxLon
      ]_vars

\* C12 witness: a reading on a corner of the box is in the graph, and the
\* call after it, just beyond a bound, was rejected.
C12_Witness ==
    /\ tcall.result = "None"
    /\ tcall.lat = MaxLat /\ tcall.lon = MaxLon + 1
    /\ \E n \in tgraph.nodes :
           n.type = "telemetry_reading" /\ n.lat = MinLat /\ n.lng = MaxLon

\* C13: an ingestor configured with a license outside the allow-list stores
\* no payload and creates no telemetry_reading node.
C13_LicenseNotAllowedRejected ==
    ingestor.data_license \notin OPEN_DATA_LICENSES =>
        /\ payloads = {}
        /\ \A n \in tgraph.nodes : n.type # "telemetry_reading"

\* C14: a process_reading call whose metadata matches a PII pattern stores no
\* payload and creates no node.
C14_PiiReadingDropped ==
    [][\A lat \in Lats, lon \in Lons, locality \in {None, "NORFOLK"},
          metadata \in Metadata, store_ok \in BOOLEAN :
           ( /\ ProcessReading("s1", lat, lon, locality, metadata, store_ok)
             /\ metadata # None /\ contains_pii(metadata) )
           => UNCHANGED <<payloads, tgraph>>
      ]_vars

\* ------------------------------------------------------------------ claims: processor

\* C15: once the accumulated compute cost of a worker has reached the budget
\* (equality included), the worker claims no further job from the queue.
C15_NoDequeueAfterBudget ==
    [][\A w \in Workers :
          total_cost[w] >= MaxBudget => holding'[w] \subseteq holding[w]]_vars

\* C16: a loop iteration of a worker initiates the shutdown for idleness
\* exactly when the worker has been idle, that is since its last batch finished
\* (or since the loop started, when it has had none), for longer than the idle
\* threshold.
C16_IdleShutdownExact ==
    [][\A w \in Workers :
          (wstate[w] = "up" /\ wstate'[w] \in {"stopping", "sleeping", "batch"}) =>
              LET idle_since == IF batch_done[w] = NoValue THEN start_time[w]
                                ELSE batch_done[w]
              IN  wstate'[w] = "stopping" <=> now - idle_since > IdleThreshold]_vars

\* C17: a batch holds at most min(batch_size, max_parallel) jobs, a loop
\* iteration claims no more than that, and no more than max_parallel jobs run
\* at once inside a worker, also while a job that outlived its timeout is still
\* running and the next batch has been submitted.
C17_BoundedBatchAndPool ==
    [][\A w \in Workers :
          LET limit == IF BatchSize < MaxParallelJobs THEN BatchSize ELSE MaxParallelJobs
          IN  /\ Len(futures'[w]) <= limit
              /\ Cardinality(holding'[w] \ holding[w]) <= limit
              /\ Cardinality(executing'[w]) <= MaxParallelJobs]_vars

\* C17 witness: a job whose future timed out still runs in the pool, the next
\* batch has been submitted and its job waits for a thread.
C17_Witness ==
    \E w \in Workers :
        /\ wstate[w] = "batch"
        /\ Cardinality(executing[w]) = MaxParallelJobs
        /\ \E j \in executing[w] : ~InSeq(futures[w], j)
        /\ \E i \in 1..Len(futures[w]) : InSeq(waiting[w], futures[w][i])

\* C18: graceful shutdown terminates whatever the jobs do: once its wait for
\* the in-flight jobs is over (they are done, or shutdown_timeout has passed),
\* the process can exit without any job having to finish first; a job still
\* running is abandoned.
C18_ShutdownExitsWithoutJobs ==
    \A w \in Workers :
        (Running(w) /\ (wstate[w] = "stopping" \/ sd[w] = "joining")) =>
            ENABLED ShutdownExit(w)

\* ------------------------------------------------------------------ claims: object pool, stores

\* C20: when store_file returns, the entry of the file is Stored with a CID or
\* its file_id is in ipfs_retry_queue.
C20_StoredOrQueued ==
    [][\A n \in Nodes, f \in FileIds, replicate \in BOOLEAN :
          StoreFile(n, f, replicate) =>
              \/ files'[f].ipfs_status = "stored" /\ files'[f].ipfs_hash # NoHash
              \/ InSeq(retry_queue', f)]_vars

\* the lexicographic order of the node ids
NodeRank(n) == CASE n = "n1" -> 1 [] n = "n2" -> 2 [] n = "n3" -> 3

\* C19: when store_file replicates a file, no eligible peer that got no copy
\* has more free space than a peer that got one, or as much and a smaller
\* node id (one copy is made: replication_factor - 1).
C19_LargestFreeSpaceFirst ==
    [][\A n \in Nodes, f \in FileIds :
          StoreFile(n, f, TRUE) =>
              \A p, q \in (DOMAIN disk) \ {n} :
                  ( /\ f \in disk'[p] \ disk[p]
                    /\ f \notin disk'[q]
                    /\ FreeSpace(PoolState, q) >= FileSize )
                  => \/ FreeSpace(PoolState, q) < FreeSpace(PoolState, p)
                     \/ /\ FreeSpace(PoolState, q) = FreeSpace(PoolState, p)
                        /\ NodeRank(p) < NodeRank(q)]_vars

\* ------------------------------------------------------------------ claims: promotion retries

\* C21: promotion is retried a bounded number of times only.  A round of
\* retries in which every add fails must therefore leave a trace in the pool
\* (an attempt counted, an entry marked Failed, an id dropped from the queue):
\* if it leaves files and ipfs_retry_queue exactly as they were, failing rounds
\* repeat without end and the id stays queued forever.
C21_FailedRetryLeavesTrace ==
    \A n \in Nodes, limit \in 1..MaxLimit :
        (retry_queue # <<>> /\ Len(retry_queue) <= limit) =>
            RetryLoop(PoolState, n, limit, [i \in 1..limit |-> FALSE], 1) # PoolState

Referenced(cid) == \E nd \in snapshot.nodes : nd.cid = cid

\* C23: cleanup_old_files does not remove the local replica of a promoted
\* file while a node of the current graph references the file's CID.
C23_ReferencedObjectKept ==
    [][\A n \in Nodes, f \in FileIds :
          ( /\ CleanupFile(n, f)
            /\ files[f].ipfs_status = "stored"
            /\ Referenced(files[f].ipfs_hash) )
          => (f \in disk[n] => f \in disk'[n])]_vars

\* ------------------------------------------------------------------ claims: chunking

\* the chunk_document call has returned
ChunkReturned == args.fn = "chunk_document" /\ ret.pc = "done"

\* C24: when chunk_document returns for a text of W words: if W <= chunk_size
\* the result is [text] itself; otherwise the first chunk has at most
\* chunk_size words and every later chunk starts chunk_size - overlap words
\* after the start of the chunk before it.
C24_WindowsSlideByStride ==
    ChunkReturned =>
        LET W == Len(args.text.words)
            chunks == ret.chunks
        IN  /\ W <= args.chunk_size => chunks = <<args.text>>
            /\ W > args.chunk_size =>
                   /\ chunks # <<>>
                   /\ Len(chunks[1].words) <= args.chunk_size
                   /\ \A i \in 2..Len(chunks) :
                          /\ chunks[i].words # <<>>
                          /\ chunks[i - 1].words # <<>>
                          /\ Head(chunks[i].words)
                                 = Head(chunks[i - 1].words) + (args.chunk_size - args.overlap)

\* the words of a list of chunks
ChunkWords(chunks) == UNION {{c.words[k] : k \in 1..Len(c.words)} : c \in {chunks[i] : i \in 1..Len(chunks)}}

\* the last chunk of the list ends at the last of the W words
EndsAtLastWord(chunks, W) ==
    /\ chunks # <<>>
    /\ LET last == chunks[Len(chunks)].words
       IN  W > 0 => (last # <<>> /\ last[Len(last)] = W)

Merged == args.fn = "smart_union" /\ ret.pc = "done"

\* no key value occurs twice in the list
DuplicateFree(list) ==
    \A i, j \in 1..Len(list) : (i # j /\ list[i] # "") => list[i] # list[j]

\* C26: the record smart_union returns has no two locations with the same
\* name, no two entities of one category with the same name and no two
\* dates with the same date, whatever the chunk results held.
C26_MergedDuplicateFree ==
    Merged =>
        \A k \in {"locations", "people", "organizations", "companies", "dates"} :
            DuplicateFree(ret.value[k])

\* the first non-empty value of the scalar field in chunk order (Absent: none)
RECURSIVE FirstNonEmpty(_, _)
FirstNonEmpty(chunk_results, i) ==
    IF i > Len(chunk_results) THEN Absent
    ELSE IF "title" \in chunk_results[i].keys /\ chunk_results[i].title # ""
         THEN chunk_results[i].title
    ELSE FirstNonEmpty(chunk_results, i + 1)

\* C27: for a scalar field the merged record holds the value of the first
\* chunk result, in chunk order, whose value is not empty.
C27_FirstNonEmptyWins ==
    (Merged /\ FirstNonEmpty(args.chunk_results, 1) # Absent) =>
        ret.value.title = FirstNonEmpty(args.chunk_results, 1)

\* ------------------------------------------------------------------ claims: document processing

\* the process_document call has returned
Processed == args.fn = "process_document" /\ ret.pc = "done"

\* C28: when the document was split into more than one chunk, the processed
\* record's text_content is the whole text of the document, not the text of
\* one of its chunks.
C28_TextContentIsWholeText ==
    (Processed /\ Len(ret.chunk_results) > 1) =>
        /\ "text_content" \in ret.value.keys
        /\ ret.value.text_content.words = args.text.words

\* C29: when the model's output for some chunk did not parse as JSON, the
\* processed record has the error key, whichever chunk it was.
C29_ParseFailureReported ==
    (Processed /\ \E i \in 1..Len(ret.chunk_results) : "error" \in ret.chunk_results[i].keys)
        => "error" \in ret.value.keys

\* ------------------------------------------------------------------ claims: relationships

\* the edges of the graph from the node labelled src to the node labelled
\* tgt whose label is, or canonicalises to, the edge type
EdgesOfType(graph, src, tgt, type) ==
    {k \in 1..Len(graph.edges) :
        /\ \E n \in graph.nodes : n.label = src /\ n.id = graph.edges[k].source
        /\ \E n \in graph.nodes : n.label = tgt /\ n.id = graph.edges[k].target
        /\ \/ graph.edges[k].relationship = type
           \/ canonical_edge(1, graph.edges[k].relationship) = type}

\* C30: when two relationships of an analysis join the same source and
\* target with labels that canonicalise to the same edge type, the graph
\* has exactly one edge of that type from the source to the target, and the
\* edge carries the canonical type, not the label.
C30_OneCanonicalEdge ==
    (args.fn = "update_graph_database" /\ ret.pc = "done") =>
        \A i, j \in 1..Len(args.relationships) :
            LET a == args.relationships[i]
                b == args.relationships[j]
                type == canonical_edge(1, a.relationship)
            IN  ( /\ i # j /\ a.source = b.source /\ a.target = b.target
                  /\ \E n \in ret.graph.nodes : n.label = a.target
                  /\ type # None /\ canonical_edge(1, b.relationship) = type )
                => /\ Cardinality(EdgesOfType(ret.graph, a.source, a.target, type)) = 1
                   /\ \A k \in EdgesOfType(ret.graph, a.source, a.target, type) :
                          ret.graph.edges[k].relationship = type

\* ------------------------------------------------------------------ claims: edge canonicalisation

\* C31: canonical_edge answers for a text as for the text lower-cased and
\* trimmed; every synonym the mapping lists gives its member of EdgeType,
\* in any case and with blanks around it; missing and empty text, text the
\* mapping does not list and text mapped to a name that is no member give
\* none.
C31_CanonicalEdgeNormalises ==
    (args.fn = "canonical_edge" /\ ret.pc = "done") =>
        LET text == args.text
            value == ret.value
        IN  /\ text # None => value = canonical_edge(args.mapping, LowerStrip(text))
            /\ text \in {"worked with", "Worked With", "  worked with  ", "WORKED WITH",
                          "collaborated with"} => value = "worked_with"
            /\ text \in {"acquired", "ACQUIRED", "bought", " Bought"} => value = "acquired"
            /\ text = "partnered with" => value = "partnered_with"
            /\ text = "new relation" => value = IF args.mapping = 2 THEN "acquired" ELSE None
            /\ text \in {None, "", "  ", "unknown relation", "invalid relation"}
                   => value = None

\* C31 witness: a synonym written in capitals was resolved.
C31_Witness ==
    /\ args.fn = "canonical_edge" /\ ret.pc = "done"
    /\ args.text = "WORKED WITH"
    /\ ret.value = "worked_with"

\* C32: a canonical_edge call answers from the mapping file's content as it
\* was when the call began or as it became while the call ran: never from
\* an older cached mapping, and never from an emptied one, whatever the
\* other threads do.
C32_AnswersFromCurrentFile ==
    \A t \in Threads :
        LET th == edge_mapping.threads[t]
        IN  (th.pc = "done" /\ th.fn = "canonical_edge") =>
                /\ th.mapping >= th.began
                /\ th.answer = canonical_edge(th.mapping, th.text)

\* ------------------------------------------------------------------ claims: git history

\* C33: for the lineage stored as P1 -derives_from-> R1 and
\* J1 -implements-> P1, the git history of J1 is the commits R1, P1, J1 in
\* that order, and the parents of J1 are P1 alone.
C33_LineageHistory ==
    ( /\ args.fn = "build_git_history_for_project" /\ ret.pc = "done"
      /\ args.project_id = "J1"
      /\ args.G.edges = {[source |-> "P1", target |-> "R1", type |-> "derives_from"],
                         [source |-> "J1", target |-> "P1", type |-> "implements"]} )
    => /\ [i \in 1..Len(ret.commits) |-> ret.commits[i].id] = <<"R1", "P1", "J1">>
       /\ ret.commits[3].parents = {"P1"}

\* ------------------------------------------------------------------ claims: read API

\* C34: for every document-to-project link the writer has saved, the
\* project's documents endpoint returns the document node.
C34_ProjectDocumentsFound ==
    \A e \in snapshot.edges :
        e.type = "contains_document"
            => \E n \in get_project_documents(snapshot, e.target).body : n.id = e.source

\* ------------------------------------------------------------------ claims: queue membership

\* C35: with no add_job, get_job or requeue_job call part-way through, every
\* pending job is on document_queue exactly once, and no entry of the queue is
\* a job that is processing or completed.
C35_PendingQueuedOnce ==
    /\ \A j \in JobIds :
           jobs[j].status = "pending"
               => Cardinality({i \in 1..Len(queue) : queue[i] = j}) = 1
    /\ \A i \in 1..Len(queue) : jobs[queue[i]].status \notin {"processing", "completed"}

\* ------------------------------------------------------------------ claims: worker membership

\* C36: a running worker whose heartbeat is current (it has registered or
\* sent a heartbeat at the present instant) is a member of active_workers,
\* also after it was pruned while slow.
C36_HeartbeatingWorkerActive ==
    \A w \in Workers :
        (Running(w) /\ last_heartbeat[w] = now) => w \in active_workers

\* ------------------------------------------------------------------ claims: replica lists

\* C37: the replica list of every file entry names each node at most once
\* and names exactly the nodes that hold a local copy of the file.
C37_ReplicaListExact ==
    \A f \in FileIds :
        files[f] # NoEntry
            => LET nodes == files[f].storage_nodes IN
               /\ \A i, k \in 1..Len(nodes) : nodes[i] = nodes[k] => i = k
               /\ {nodes[i] : i \in 1..Len(nodes)} = {n \in Nodes : f \in disk[n]}

\* ------------------------------------------------------------------ claims: compute cost

\* C38: the accumulated total_cost of a worker never exceeds cost_per_hour
\* times the time elapsed since the worker's start time.
C38_CostWithinElapsed ==
    \A w \in Workers :
        wstate[w] \notin {"new", "registered"}
            => total_cost[w] <= CostPerHour * (now - start_time[w])

\* ------------------------------------------------------------------ claims: shutdown

\* C39: _graceful_shutdown is started at most once in the life of a worker
\* process.
C39_ShutdownStartedOnce ==
    \A w \in Workers : shutdowns[w] <= 1

\* ------------------------------------------------------------------ claims: weather units

\* C40: every reading node a run of the weather ingestor writes carries the
\* unit the feed gives for the node's own weather variable.
C40_ReadingHasOwnUnit ==
    (args.fn = "run" /\ ret.pc = "done")
        => \A i \in 1..Len(ret.nodes) :
               ret.nodes[i].unit = args.feed[ret.nodes[i].id].uom

====
